---------------------------- MODULE Spec2Model ----------------------------
(***************************************************************************)
(* removebg-square: the XMP provenance writer (xmp.py) and the batch       *)
(* pipeline that calls it (core.py, cli.py).                               *)
(*                                                                         *)
(* Files are sequences of bytes (0..255).  Offsets follow the Python       *)
(* source: 0-based, half-open slices data[a:b].  An Optional value is a    *)
(* sequence of length 0 (None) or 1.                                       *)
(***************************************************************************)
EXTENDS Integers, Sequences, FiniteSets, TLC

VARIABLES fs, fs0, pre, last, prev, ncalls, batch, procs, pure

vars == <<fs, fs0, pre, last, prev, ncalls, batch, procs, pure>>

---------------------------------------------------------------------------
(* Bytes and slices                                                        *)

Min(a, b) == IF a <= b THEN a ELSE b
Max(a, b) == IF a >= b THEN a ELSE b

None == <<>>
Some(v) == <<v>>

\* F applied to the value of v, which is computed once, before F's body is
\* (the evaluation order of the source: a local variable holds a value).
Let(v, F(_)) == CHOOSE r \in {F(x) : x \in {v}} : TRUE
Let2(v, w, F(_, _)) == CHOOSE r \in {F(x, y) : x \in {v}, y \in {w}} : TRUE

\* data[a:b] of Python: clamped to the buffer, empty when a >= b.
Slice(data, a, b) ==
    LET n  == Len(data)
        lo == Min(Max(a, 0), n)
        hi == Min(Max(b, 0), n)
    IN  IF lo >= hi THEN <<>> ELSE SubSeq(data, lo + 1, hi)

\* data.startswith(prefix)
StartsWith(data, prefix) ==
    /\ Len(data) >= Len(prefix)
    /\ SubSeq(data, 1, Len(prefix)) = prefix

\* payload.find(b, start): the least 0-based index >= start holding byte b, else -1.
Find(payload, b, start) ==
    LET hits == {i \in Max(start, 0) .. Len(payload) - 1 : payload[i + 1] = b}
    IN  IF hits = {} THEN -1 ELSE CHOOSE i \in hits : \A j \in hits : i <= j

\* struct.pack(">I", n)
PackU32(n) == <<n \div 16777216, (n \div 65536) % 256, (n \div 256) % 256, n % 256>>

\* struct.unpack(">I", b)[0].  Values of 127 * 2^24 and more are reported as
\* 127 * 2^24: every buffer of the model is far shorter, so the scanner's only
\* use of such a length (crc_end > n) is decided the same way.
UnpackU32(b) ==
    IF b[1] >= 127 THEN 127 * 16777216
    ELSE b[1] * 16777216 + b[2] * 65536 + b[3] * 256 + b[4]

---------------------------------------------------------------------------
(* zlib.crc32, table driven, on a 32-bit value kept as <<high 16, low 16>>  *)

\* a XOR b on 4-bit values: row a + 1, column b + 1.
Xor4Rows == <<
    <<0, 1, 2, 3, 4, 5, 6, 7, 8, 9, 10, 11, 12, 13, 14, 15>>,
    <<1, 0, 3, 2, 5, 4, 7, 6, 9, 8, 11, 10, 13, 12, 15, 14>>,
    <<2, 3, 0, 1, 6, 7, 4, 5, 10, 11, 8, 9, 14, 15, 12, 13>>,
    <<3, 2, 1, 0, 7, 6, 5, 4, 11, 10, 9, 8, 15, 14, 13, 12>>,
    <<4, 5, 6, 7, 0, 1, 2, 3, 12, 13, 14, 15, 8, 9, 10, 11>>,
    <<5, 4, 7, 6, 1, 0, 3, 2, 13, 12, 15, 14, 9, 8, 11, 10>>,
    <<6, 7, 4, 5, 2, 3, 0, 1, 14, 15, 12, 13, 10, 11, 8, 9>>,
    <<7, 6, 5, 4, 3, 2, 1, 0, 15, 14, 13, 12, 11, 10, 9, 8>>,
    <<8, 9, 10, 11, 12, 13, 14, 15, 0, 1, 2, 3, 4, 5, 6, 7>>,
    <<9, 8, 11, 10, 13, 12, 15, 14, 1, 0, 3, 2, 5, 4, 7, 6>>,
    <<10, 11, 8, 9, 14, 15, 12, 13, 2, 3, 0, 1, 6, 7, 4, 5>>,
    <<11, 10, 9, 8, 15, 14, 13, 12, 3, 2, 1, 0, 7, 6, 5, 4>>,
    <<12, 13, 14, 15, 8, 9, 10, 11, 4, 5, 6, 7, 0, 1, 2, 3>>,
    <<13, 12, 15, 14, 9, 8, 11, 10, 5, 4, 7, 6, 1, 0, 3, 2>>,
    <<14, 15, 12, 13, 10, 11, 8, 9, 6, 7, 4, 5, 2, 3, 0, 1>>,
    <<15, 14, 13, 12, 11, 10, 9, 8, 7, 6, 5, 4, 3, 2, 1, 0>>>>
Xor4(a, b) == Xor4Rows[a + 1][b + 1]
Xor8(a, b) == 16 * Xor4(a \div 16, b \div 16) + Xor4(a % 16, b % 16)
Xor16(a, b) == 256 * Xor8(a \div 256, b \div 256) + Xor8(a % 256, b % 256)

\* zlib's crc_table (reflected polynomial 0xEDB88320): entry b + 1 is the CRC
\* register after the eight shift steps on byte b, as <<high 16, low 16>>.
CrcTable == <<
    <<0, 0>>, <<30471, 12438>>, <<60942, 24876>>, <<39177, 20922>>,
    <<1901, 50201>>, <<28778, 62607>>, <<59747, 42293>>, <<40548, 38307>>,
    <<3803, 34866>>, <<31196, 47268>>, <<57557, 59678>>, <<38866, 55688>>,
    <<2486, 19499>>, <<32433, 31933>>, <<59320, 11527>>, <<37055, 7569>>,
    <<7607, 4196>>, <<27312, 8434>>, <<62393, 29000>>, <<33982, 16862>>,
    <<6874, 54397>>, <<28125, 58603>>, <<62676, 46417>>, <<33747, 34247>>,
    <<4972, 38998>>, <<25707, 43200>>, <<64866, 63866>>, <<35429, 51692>>,
    <<5121, 23631>>, <<25350, 27865>>, <<64015, 15715>>, <<36104, 3573>>,
    <<15214, 8392>>, <<19561, 4190>>, <<54624, 16868>>, <<41575, 29042>>,
    <<15363, 58577>>, <<19204, 54343>>, <<53773, 34301>>, <<42250, 46443>>,
    <<13749, 43258>>, <<17074, 39020>>, <<56251, 51670>>, <<44220, 63808>>,
    <<13016, 27875>>, <<17887, 23669>>, <<56534, 3535>>, <<43985, 15705>>,
    <<9945, 12460>>, <<20958, 58>>, <<51415, 20864>>, <<49104, 24854>>,
    <<8628, 62645>>, <<22195, 50211>>, <<53178, 38297>>, <<47293, 42255>>,
    <<10242, 47262>>, <<24325, 34824>>, <<50700, 55730>>, <<45323, 59684>>,
    <<12143, 31879>>, <<22632, 19473>>, <<49505, 7595>>, <<46694, 11581>>,
    <<30428, 16784>>, <<475, 28934>>, <<39122, 8380>>, <<61397, 4138>>,
    <<29105, 34185>>, <<1718, 46367>>, <<40895, 58533>>, <<59576, 54323>>,
    <<30727, 51618>>, <<3840, 63796>>, <<38409, 43150>>, <<57614, 38936>>,
    <<32618, 3515>>, <<2157, 15661>>, <<37220, 27799>>, <<58979, 23553>>,
    <<27499, 20980>>, <<7276, 24930>>, <<34149, 12504>>, <<62050, 78>>,
    <<27654, 38381>>, <<6913, 42363>>, <<33288, 62657>>, <<62735, 50263>>,
    <<26032, 55750>>, <<4791, 59728>>, <<35774, 47338>>, <<64697, 34940>>,
    <<25309, 7647>>, <<5594, 11593>>, <<36051, 31987>>, <<64468, 19557>>,
    <<19890, 24920>>, <<15029, 20942>>, <<41916, 116>>, <<54459, 12514>>,
    <<19167, 42305>>, <<15832, 38359>>, <<42193, 50285>>, <<54230, 62715>>,
    <<17257, 59754>>, <<13422, 55804>>, <<44391, 34886>>, <<55904, 47312>>,
    <<17412, 11635>>, <<13059, 7653>>, <<43530, 19551>>, <<56589, 31945>>,
    <<20485, 28988>>, <<9986, 16810>>, <<48651, 4112>>, <<51468, 8326>>,
    <<22376, 46373>>, <<8303, 34227>>, <<47462, 54281>>, <<52833, 58527>>,
    <<24286, 63758>>, <<10713, 51608>>, <<45264, 38946>>, <<51159, 43188>>,
    <<22963, 15639>>, <<11956, 3457>>, <<47037, 23611>>, <<49338, 27821>>,
    <<60856, 33568>>, <<39615, 46006>>, <<950, 57868>>, <<29873, 53914>>,
    <<60117, 18233>>, <<40402, 30639>>, <<1243, 9749>>, <<29660, 5763>>,
    <<58211, 2834>>, <<37988, 15236>>, <<3437, 27198>>, <<31338, 23208>>,
    <<58382, 53003>>, <<37641, 65437>>, <<2560, 44583>>, <<32007, 40625>>,
    <<61455, 37700>>, <<34568, 41938>>, <<7681, 62056>>, <<26886, 49918>>,
    <<63330, 22365>>, <<32869, 26571>>, <<6508, 13937>>, <<28267, 1767>>,
    <<65236, 7030>>, <<35283, 11232>>, <<4314, 31322>>, <<26589, 19148>>,
    <<63929, 57199>>, <<36542, 61433>>, <<6071, 48707>>, <<24752, 36565>>,
    <<54998, 41960>>, <<41425, 37758>>, <<14552, 49860>>, <<20447, 62034>>,
    <<53691, 26609>>, <<42684, 22375>>, <<16309, 1757>>, <<18610, 13899>>,
    <<55309, 11226>>, <<44810, 6988>>, <<13827, 19190>>, <<16644, 31328>>,
    <<57184, 61379>>, <<43111, 57173>>, <<12654, 36591>>, <<18025, 48761>>,
    <<52065, 45964>>, <<48230, 33562>>, <<9583, 53920>>, <<21096, 57910>>,
    <<52236, 30613>>, <<47883, 18179>>, <<8706, 5817>>, <<21765, 9775>>,
    <<50618, 15294>>, <<45757, 2856>>, <<11188, 23186>>, <<23731, 27140>>,
    <<49879, 65447>>, <<46544, 53041>>, <<11481, 40587>>, <<23518, 44573>>,
    <<39780, 49840>>, <<60515, 61990>>, <<30058, 41884>>, <<621, 37642>>,
    <<39945, 1705>>, <<60174, 13887>>, <<29191, 26501>>, <<1280, 22291>>,
    <<38335, 19074>>, <<58040, 31252>>, <<31665, 11182>>, <<3254, 6968>>,
    <<37586, 36507>>, <<58837, 48653>>, <<31964, 61367>>, <<3035, 57121>>,
    <<34515, 53972>>, <<61908, 57922>>, <<26845, 46072>>, <<8154, 33646>>,
    <<33214, 5837>>, <<63161, 9819>>, <<28592, 30689>>, <<6327, 18295>>,
    <<34824, 23270>>, <<65295, 27248>>, <<26118, 15306>>, <<4353, 2908>>,
    <<36709, 40703>>, <<63586, 44649>>, <<24939, 65491>>, <<5740, 53061>>,
    <<40970, 57976>>, <<55053, 53998>>, <<19972, 33620>>, <<14595, 46018>>,
    <<42855, 9825>>, <<53344, 5879>>, <<18793, 18253>>, <<15982, 30683>>,
    <<44753, 27210>>, <<55766, 23260>>, <<16607, 2918>>, <<14296, 15344>>,
    <<43452, 44627>>, <<57019, 40645>>, <<18354, 53119>>, <<12469, 65513>>,
    <<48573, 61980>>, <<51898, 49802>>, <<21427, 37680>>, <<9396, 41894>>,
    <<47824, 13829>>, <<52695, 1683>>, <<21726, 22313>>, <<9177, 26559>>,
    <<45926, 31278>>, <<50273, 19128>>, <<23912, 6914>>, <<10863, 11156>>,
    <<46091, 48695>>, <<49932, 36513>>, <<23045, 57115>>, <<11522, 61325>>>>

CrcUpdate(c, b) ==
    Let(CrcTable[Xor8(c[2] % 256, b) + 1],
        LAMBDA t : <<Xor16(t[1], c[1] \div 256),
                     Xor16(t[2], (c[2] \div 256) + 256 * (c[1] % 256))>>)

\* The CRC register after the bytes s[lo..hi], from register c.
RECURSIVE CrcRun(_, _, _, _)
CrcRun(s, c, lo, hi) ==
    IF lo > hi THEN c
    ELSE IF lo = hi THEN CrcUpdate(c, s[lo])
    ELSE Let(CrcRun(s, c, lo, (lo + hi) \div 2),
             LAMBDA mid : CrcRun(s, mid, ((lo + hi) \div 2) + 1, hi))

\* zlib.crc32(s) & 0xFFFFFFFF, as its four big-endian bytes.
Crc32(s) ==
    Let(CrcRun(s, <<65535, 65535>>, 1, Len(s)),
        LAMBDA r : <<(65535 - r[1]) \div 256, (65535 - r[1]) % 256,
                     (65535 - r[2]) \div 256, (65535 - r[2]) % 256>>)

---------------------------------------------------------------------------
(* The PNG chunk layer (xmp.py, _PNG_SIG .. _extract_png_itxt_xmp_packet)   *)

\* b"\x89PNG\r\n\x1a\n"
_PNG_SIG == <<137, 80, 78, 71, 13, 10, 26, 10>>
\* b"XML:com.adobe.xmp"
_XMP_ITXT_KEYWORD ==
    <<88, 77, 76, 58, 99, 111, 109, 46, 97, 100, 111, 98, 101, 46, 120, 109, 112>>

T_iTXt == <<105, 84, 88, 116>>
T_IEND == <<73, 69, 78, 68>>
T_IHDR == <<73, 72, 68, 82>>
T_IDAT == <<73, 68, 65, 84>>
T_tEXt == <<116, 69, 88, 116>>

\* The least index of a sequence that satisfies Test, or 0.
FirstIndex(seq, Test(_)) ==
    LET hits == {k \in 1..Len(seq) : Test(seq[k])}
    IN  IF hits = {} THEN 0 ELSE CHOOSE k \in hits : \A j \in hits : k <= j

\* The concatenation of a sequence of sequences.
Concat(seqs) ==
    LET Cat[k \in 1..(Len(seqs) + 1)] ==
            IF k > Len(seqs) THEN <<>> ELSE seqs[k] \o Cat[k + 1]
    IN  Cat[1]

\* The chunks the generator yields from offset i on, as the tuples
\* (ctype, data_start, data_end, chunk_start, chunk_end) of the source.
RECURSIVE IterChunksFrom(_, _)
IterChunksFrom(data, i) ==
    IF ~(i + 8 <= Len(data)) THEN <<>>
    ELSE Let2(UnpackU32(Slice(data, i, i + 4)), Slice(data, i + 4, i + 8),
              LAMBDA length, ctype :
                IF (i + 8) + length + 4 > Len(data) THEN <<>>
                ELSE <<[ctype |-> ctype,
                        data_start |-> i + 8, data_end |-> (i + 8) + length,
                        chunk_start |-> i, chunk_end |-> (i + 8) + length + 4]>>
                     \o (IF ctype = T_IEND THEN <<>>
                         ELSE Let((i + 8) + length + 4,
                                  LAMBDA chunk_end : IterChunksFrom(data, chunk_end))))

\* _iter_png_chunks without the test of the signature.
_iter_png_chunks_NoSignatureTest(data) ==
    IterChunksFrom(data, Len(_PNG_SIG))

\* Lines 172-192.
_iter_png_chunks(data) ==
    IF ~StartsWith(data, _PNG_SIG) THEN <<>> ELSE IterChunksFrom(data, Len(_PNG_SIG))

\* _build_png_chunk with the CRC taken over the payload alone.
_build_png_chunk_CrcOverPayload(chunk_type, payload) ==
    Let(chunk_type \o payload,
        LAMBDA body : PackU32(Len(body) - Len(chunk_type)) \o body \o Crc32(payload))

\* Lines 195-200.
_build_png_chunk(chunk_type, payload) ==
    Let(chunk_type \o payload,
        LAMBDA body : PackU32(Len(body) - Len(chunk_type)) \o body \o Crc32(body))

\* The keyword is the fixed 17-byte marker, so the ValueError of lines 205-206
\* is never raised.
_build_png_itxt_xmp_chunk(xmp_packet) ==
    LET keyword            == _XMP_ITXT_KEYWORD
        compression_flag   == <<0>>
        compression_method == <<0>>
        language_tag       == <<0>>
        translated_keyword == <<0>>
    IN  _build_png_chunk(T_iTXt,
            keyword \o <<0>> \o compression_flag \o compression_method
            \o language_tag \o translated_keyword \o xmp_packet)

\* What one loop iteration of _extract_png_itxt_xmp_packet does with the payload
\* of an iTXt chunk: None for "continue", Some(packet) for "return".
ExtractFromPayload(payload) ==
    Let(Find(payload, 0, 0), LAMBDA nul :
        IF nul <= 0 THEN None
        ELSE IF Slice(payload, 0, nul) # _XMP_ITXT_KEYWORD THEN None
        ELSE IF (nul + 1) + 2 > Len(payload) THEN None
        ELSE Let(Find(payload, 0, nul + 3), LAMBDA nul2 :
                 IF nul2 = -1 THEN None
                 ELSE Let(Find(payload, 0, nul2 + 1), LAMBDA nul3 :
                          IF nul3 = -1 THEN None
                          ELSE Some(Slice(payload, nul3 + 1, Len(payload))))))

ExtractFromChunk(data, c) ==
    IF c.ctype # T_iTXt THEN None
    ELSE Let(Slice(data, c.data_start, c.data_end), ExtractFromPayload)

\* Optional[bytes]: the packet of the first chunk the loop returns from.
_extract_png_itxt_xmp_packet(data) ==
    Let(_iter_png_chunks(data), LAMBDA chunks :
        Let([k \in 1..Len(chunks) |-> ExtractFromChunk(data, chunks[k])], LAMBDA found :
            Let(FirstIndex(found, LAMBDA x : x # None), LAMBDA k :
                IF k = 0 THEN None ELSE found[k])))

---------------------------------------------------------------------------
(* XML text and element trees (xml.etree.ElementTree as xmp.py uses it)     *)
(*                                                                         *)
(* XML text is modelled at token granularity: one unit per markup          *)
(* construct (the XML declaration, a start tag, an end tag, the xml:lang   *)
(* attribute's opening and closing), with codes in 128..252 that no        *)
(* character datum uses; character data are one unit per character, with   *)
(* their ASCII codes, each standing for the character as ElementTree       *)
(* writes it (escaped where ElementTree escapes it).  255 is a byte that   *)
(* is not valid UTF-8 and 253 the replacement character U+FFFD that        *)
(* decoding puts in its place.  The control characters other than tab,     *)
(* line feed and carriage return are written as they are and are no XML    *)
(* characters: the parser refuses a text that holds one.  In the text and  *)
(* the tail of an element a carriage return is written as it is, and the   *)
(* parser reads it back as a line feed; in an attribute value it is        *)
(* written as a character reference and read back unchanged.               *)

Tok == [decl |-> 128, open |-> 130, close |-> 150, lang |-> 170, endattr |-> 171,
        repl |-> 253, bad |-> 255]

TagId == ("x:xmpmeta" :> 1) @@ ("rdf:RDF" :> 2) @@ ("rdf:Description" :> 3)
         @@ ("dc:subject" :> 4) @@ ("rdf:Bag" :> 5) @@ ("rdf:li" :> 6)
         @@ ("dc:description" :> 7) @@ ("rdf:Alt" :> 8) @@ ("wrapper" :> 9)
         @@ ("dc:title" :> 10)
TagNames == DOMAIN TagId
TagOfId(k) == CHOOSE t \in TagNames : TagId[t] = k

\* tag.endswith("xmpmeta")
EndsWithXmpmeta(tag) == tag \in {"x:xmpmeta"}

OpenTok(tag)  == Tok.open + TagId[tag]
CloseTok(tag) == Tok.close + TagId[tag]
IsOpenTok(u)  == \E t \in TagNames : u = OpenTok(t)
IsCloseTok(u) == \E t \in TagNames : u = CloseTok(t)
\* The characters the parser takes as character data (XML's Char, among the
\* ASCII characters and U+FFFD); for any other it raises ParseError.
IsCharUnit(u) == u \in {9, 10, 13} \/ (u >= 32 /\ u < 128) \/ u = Tok.repl

\* XML white space (S ::= #x20 | #x9 | #xD | #xA)
IsXmlSpace(u) == u \in {32, 9, 13, 10}
\* what str.strip() removes, among the ASCII characters
IsPySpace(u) == u \in {9, 10, 11, 12, 13, 28, 29, 30, 31, 32}

\* str.strip()
Strip(s) ==
    LET keep == {i \in 1..Len(s) : ~IsPySpace(s[i])}
    IN  IF keep = {} THEN <<>>
        ELSE SubSeq(s, CHOOSE i \in keep : \A j \in keep : i <= j,
                       CHOOSE i \in keep : \A j \in keep : i >= j)

\* str.lower(), on ASCII
Lower(s) == [i \in 1..Len(s) |-> IF s[i] >= 65 /\ s[i] <= 90 THEN s[i] + 32 ELSE s[i]]

\* ET.Element(tag): no attributes, no text, no tail, no children
Element(tag) == [tag |-> tag, lang |-> None, text |-> <<>>, tail |-> <<>>, kids |-> <<>>]

\* ET.SubElement(parent, tag) appends Element(tag) as the last child
SubElement(parent, child) == [parent EXCEPT !.kids = Append(@, child)]

\* The least index j >= i at which t holds no unit satisfying Keep (Len(t)+1 if none).
RunEnd(t, i, Keep(_)) ==
    LET stops == {j \in i .. Len(t) : ~Keep(t[j])}
    IN  IF stops = {} THEN Max(i, Len(t) + 1)
        ELSE CHOOSE j \in stops : \A k \in stops : j <= k

ParseFail == [ok |-> FALSE]

\* The line ends of character data as the parser passes them on: a carriage
\* return followed by a line feed becomes one line feed, any other carriage
\* return a line feed.
Newlines(s) ==
    IF \A i \in 1..Len(s) : s[i] # 13 THEN s
    ELSE Let({i \in 1..Len(s) : ~(s[i] = 13 /\ i < Len(s) /\ s[i + 1] = 10)}, LAMBDA keep :
             [k \in 1..Cardinality(keep) |->
                 Let(CHOOSE i \in keep : Cardinality({j \in keep : j < i}) = k - 1,
                     LAMBDA i : IF s[i] = 13 THEN 10 ELSE s[i])])

\* Whether the start tag at index i carries the xml:lang attribute.
HasLang(t, i) == i + 1 <= Len(t) /\ t[i + 1] = Tok.lang

\* An element starting at index i of t (1-based), which holds its start tag.
RECURSIVE ParseElement(_, _)
RECURSIVE ParseKids(_, _)
ParseElement(t, i) ==
    Let(RunEnd(t, i + 2, IsCharUnit), LAMBDA attrEnd :
        IF HasLang(t, i) /\ ~(attrEnd <= Len(t) /\ t[attrEnd] = Tok.endattr) THEN ParseFail
        ELSE Let(IF HasLang(t, i) THEN attrEnd + 1 ELSE i + 1, LAMBDA body :
             Let(RunEnd(t, body, IsCharUnit), LAMBDA textEnd :
             Let(ParseKids(t, textEnd), LAMBDA ks :
                 IF ~ks.ok THEN ParseFail
                 ELSE IF ~(ks.next <= Len(t)
                           /\ t[ks.next] = CloseTok(TagOfId(t[i] - Tok.open)))
                 THEN ParseFail
                 ELSE [ok |-> TRUE,
                       el |-> [tag  |-> TagOfId(t[i] - Tok.open),
                               lang |-> IF HasLang(t, i)
                                        THEN Some(SubSeq(t, i + 2, attrEnd - 1)) ELSE None,
                               text |-> Newlines(SubSeq(t, body, textEnd - 1)),
                               tail |-> <<>>, kids |-> ks.kids],
                       next |-> ks.next + 1]))))

\* The child elements from index i on, each with the character data after it as tail.
ParseKids(t, i) ==
    IF i > Len(t) THEN ParseFail
    ELSE IF ~IsOpenTok(t[i]) THEN [ok |-> TRUE, kids |-> <<>>, next |-> i]
    ELSE Let(ParseElement(t, i), LAMBDA r :
             IF ~r.ok THEN ParseFail
             ELSE Let(RunEnd(t, r.next, IsCharUnit), LAMBDA tailEnd :
                  Let(ParseKids(t, tailEnd), LAMBDA rest :
                      IF ~rest.ok THEN ParseFail
                      ELSE [ok |-> TRUE,
                            kids |-> <<[r.el EXCEPT !.tail =
                                                        Newlines(SubSeq(t, r.next, tailEnd - 1))]>>
                                     \o rest.kids,
                            next |-> rest.next])))

\* ET.fromstring(txt): an optional declaration (first, if at all), white space,
\* one root element, white space.  [ok |-> FALSE] stands for ParseError.
XmlFromString(t) ==
    Let(RunEnd(t, IF Len(t) >= 1 /\ t[1] = Tok.decl THEN 2 ELSE 1, IsXmlSpace),
        LAMBDA rootAt :
          IF ~(rootAt <= Len(t) /\ IsOpenTok(t[rootAt])) THEN ParseFail
          ELSE Let(ParseElement(t, rootAt), LAMBDA r :
                   IF ~r.ok THEN ParseFail
                   ELSE IF RunEnd(t, r.next, IsXmlSpace) # Len(t) + 1 THEN ParseFail
                   ELSE [ok |-> TRUE, el |-> r.el]))

\* The serialisation of an element: start tag, text, children, end tag, and then
\* the element's tail, which ElementTree writes for the top element as well.
RECURSIVE XmlElementText(_)
XmlElementText(e) ==
    <<OpenTok(e.tag)>>
    \o (IF e.lang = None THEN <<>> ELSE <<Tok.lang>> \o e.lang[1] \o <<Tok.endattr>>)
    \o e.text
    \o Let([k \in 1..Len(e.kids) |-> XmlElementText(e.kids[k])], Concat)
    \o <<CloseTok(e.tag)>> \o e.tail

\* ET.tostring(root, encoding="utf-8", xml_declaration=True)
XmlToString(root) == <<Tok.decl>> \o XmlElementText(root)

---------------------------------------------------------------------------
(* The XMP packet model (xmp.py, _minimal_xmp_packet_root ..                *)
(* _make_updated_xmp_packet).  The source edits the tree in place; here an *)
(* element inside a tree is named by its path, the child indices from the  *)
(* root, and an edit returns the new tree.                                 *)

RECURSIVE GetAt(_, _)
GetAt(el, path) ==
    IF path = <<>> THEN el ELSE GetAt(el.kids[Head(path)], Tail(path))

RECURSIVE SetAt(_, _, _)
SetAt(el, path, new) ==
    IF path = <<>> THEN new
    ELSE [el EXCEPT !.kids[Head(path)] = SetAt(@, Tail(path), new)]

\* The paths of el.iter(): the element itself, then its descendants, in document order.
RECURSIVE IterPaths(_)
IterPaths(el) ==
    <<(<<>>)>>
    \o Let([k \in 1..Len(el.kids) |->
               Let(IterPaths(el.kids[k]),
                   LAMBDA sub : [n \in 1..Len(sub) |-> <<k>> \o sub[n]])],
           Concat)

_minimal_xmp_packet_root ==
    SubElement(Element("x:xmpmeta"),
               SubElement(Element("rdf:RDF"), Element("rdf:Description")))

\* Returns the tree (with what was created) and the path of the Description in it.
_get_or_create_rdf_description(xmpmeta_root) ==
    Let(IterPaths(xmpmeta_root), LAMBDA paths :
    Let(FirstIndex(paths, LAMBDA q : GetAt(xmpmeta_root, q).tag = "rdf:RDF"), LAMBDA found :
    Let2(IF found = 0 THEN SubElement(xmpmeta_root, Element("rdf:RDF")) ELSE xmpmeta_root,
         IF found = 0 THEN <<Len(xmpmeta_root.kids) + 1>> ELSE paths[found],
         LAMBDA root1, rdfPath :
    Let(GetAt(root1, rdfPath), LAMBDA rdf :
    Let(FirstIndex(rdf.kids, LAMBDA el : el.tag = "rdf:Description"), LAMBDA d :
        IF d # 0 THEN [root |-> root1, path |-> Append(rdfPath, d)]
        ELSE [root |-> SetAt(root1, rdfPath, SubElement(rdf, Element("rdf:Description"))),
              path |-> Append(rdfPath, Len(rdf.kids) + 1)])))))

\* The index of the first child with that tag, or 0 (None in the source).
_find_child(parent, tag) == FirstIndex(parent.kids, LAMBDA ch : ch.tag = tag)

\* The child with that tag the source goes on to work with: the first one, or a
\* fresh one appended. [el: the parent, at: the child's index, created: whether appended]
FindOrAppend(parent, tag) ==
    Let(_find_child(parent, tag), LAMBDA k :
        IF k # 0 THEN [el |-> parent, at |-> k, created |-> FALSE]
        ELSE [el |-> SubElement(parent, Element(tag)),
              at |-> Len(parent.kids) + 1, created |-> TRUE])

\* Returns [el: the Description after the call, changed: the bool returned].
_ensure_dc_subject_keyword(desc, keyword) ==
    Let(FindOrAppend(desc, "dc:subject"), LAMBDA dc_subject :
    Let(FindOrAppend(dc_subject.el.kids[dc_subject.at], "rdf:Bag"), LAMBDA bag :
    Let(FirstIndex(bag.el.kids[bag.at].kids,
                   LAMBDA li : li.tag = "rdf:li" /\ Strip(li.text) = keyword), LAMBDA k :
        IF k # 0
        THEN [el |-> SetAt(dc_subject.el, <<dc_subject.at>>, bag.el),
              changed |-> dc_subject.created \/ bag.created]
        ELSE [el |-> SetAt(dc_subject.el, <<dc_subject.at>>,
                       SetAt(bag.el, <<bag.at>>,
                           SubElement(bag.el.kids[bag.at],
                                      [Element("rdf:li") EXCEPT !.text = keyword]))),
              changed |-> TRUE])))

\* "x-default"
X_DEFAULT == <<120, 45, 100, 101, 102, 97, 117, 108, 116>>

\* (li.attrib.get(xml_lang_key, "") or "").strip().lower()
LangOf(li) == Lower(Strip(IF li.lang = None THEN <<>> ELSE li.lang[1]))

\* Returns [el: the Description after the call, changed: the bool returned].
_ensure_dc_description_xdefault(desc, text) ==
    Let(FindOrAppend(desc, "dc:description"), LAMBDA dc_desc :
    Let(FindOrAppend(dc_desc.el.kids[dc_desc.at], "rdf:Alt"), LAMBDA alt :
    Let(FirstIndex(alt.el.kids[alt.at].kids,
                   LAMBDA li : li.tag = "rdf:li" /\ LangOf(li) = X_DEFAULT), LAMBDA k :
        IF k # 0 /\ alt.el.kids[alt.at].kids[k].text = text
        THEN [el |-> SetAt(dc_desc.el, <<dc_desc.at>>, alt.el),
              changed |-> dc_desc.created \/ alt.created]
        ELSE [el |-> SetAt(dc_desc.el, <<dc_desc.at>>,
                       SetAt(alt.el, <<alt.at>>,
                           IF k # 0
                           THEN [alt.el.kids[alt.at] EXCEPT !.kids[k].text = text]
                           ELSE SubElement(alt.el.kids[alt.at],
                                    [Element("rdf:li") EXCEPT !.lang = Some(X_DEFAULT),
                                                              !.text = text]))),
              changed |-> TRUE])))

\* Optional[str]: bytes.decode(enc, errors="replace") never raises, so the first
\* encoding, utf-8, always answers; a byte that is not valid UTF-8 becomes U+FFFD.
_decode_xml_bytes(xmp_xml_bytes) ==
    IF xmp_xml_bytes = <<>> THEN None
    ELSE Some([i \in 1..Len(xmp_xml_bytes) |->
                 IF xmp_xml_bytes[i] = Tok.bad THEN Tok.repl ELSE xmp_xml_bytes[i]])

\* The first element of root.iter() whose tag ends with "xmpmeta", as Optional
\* (root itself comes first, so lines 139-140 are the first case).
FirstXmpmeta(root) ==
    Let(IterPaths(root), LAMBDA paths :
    Let(FirstIndex(paths, LAMBDA q : EndsWithXmpmeta(GetAt(root, q).tag)), LAMBDA k :
        IF k = 0 THEN None ELSE Some(GetAt(root, paths[k]))))

\* _parse_or_create_xmpmeta_root without the search among the descendants
\* (lines 141-143).
_parse_or_create_xmpmeta_root_RootOnly(existing) ==
    IF existing = None \/ existing = Some(<<>>) THEN _minimal_xmp_packet_root
    ELSE Let(_decode_xml_bytes(existing[1]), LAMBDA txt :
         IF txt = None \/ txt = Some(<<>>) THEN _minimal_xmp_packet_root
         ELSE Let(XmlFromString(txt[1]), LAMBDA parsed :
              IF ~parsed.ok THEN _minimal_xmp_packet_root
              ELSE IF EndsWithXmpmeta(parsed.el.tag) THEN parsed.el
              ELSE _minimal_xmp_packet_root))

\* existing: Optional[bytes].
_parse_or_create_xmpmeta_root(existing) ==
    IF existing = None \/ existing = Some(<<>>) THEN _minimal_xmp_packet_root
    ELSE Let(_decode_xml_bytes(existing[1]), LAMBDA txt :
         IF txt = None \/ txt = Some(<<>>) THEN _minimal_xmp_packet_root
         ELSE Let(XmlFromString(txt[1]), LAMBDA parsed :
              IF ~parsed.ok THEN _minimal_xmp_packet_root
              ELSE Let(FirstXmpmeta(parsed.el), LAMBDA m :
                   IF m = None THEN _minimal_xmp_packet_root ELSE m[1])))

_serialize_xmpmeta(root) == XmlToString(root)

\* "ProcessedWith:", "Processed by ", " on "
S_ProcessedWith == <<80, 114, 111, 99, 101, 115, 115, 101, 100, 87, 105, 116, 104, 58>>
S_ProcessedBy == <<80, 114, 111, 99, 101, 115, 115, 101, 100, 32, 98, 121, 32>>
S_On == <<32, 111, 110, 32>>

KeywordFor(tool) == S_ProcessedWith \o tool
DescTextFor(tool, processed_date) == S_ProcessedBy \o tool \o S_On \o processed_date

\* What lines 159-163 (and 343-353 of the sidecar writer) make of the existing
\* packet: [root: the tree after the two updates, changed: whether either reported
\* a change].
UpdatedRoot(existing_xmp, tool, processed_date) ==
    Let(_parse_or_create_xmpmeta_root(existing_xmp), LAMBDA root :
    Let(_get_or_create_rdf_description(root), LAMBDA g :
    Let(GetAt(g.root, g.path), LAMBDA rdf_desc :
    Let(_ensure_dc_subject_keyword(rdf_desc, KeywordFor(tool)), LAMBDA r1 :
    Let(_ensure_dc_description_xdefault(r1.el, DescTextFor(tool, processed_date)),
        LAMBDA r2 : [root |-> SetAt(g.root, g.path, r2.el),
                     changed |-> r1.changed \/ r2.changed])))))

_make_updated_xmp_packet(existing_xmp, tool, processed_date) ==
    _serialize_xmpmeta(UpdatedRoot(existing_xmp, tool, processed_date).root)

---------------------------------------------------------------------------
(* Paths and the file system                                               *)
(*                                                                         *)
(* A path is the string of the path as ASCII codes: "a.png" is            *)
(* <<97, 46, 112, 110, 103>>, and "/" (47) ends the name of a directory.   *)
(* A file system is a function from the paths that exist to their bytes.   *)

\* ".png", ".jpg", ".tmp", ".xmp"
DotPng == <<46, 112, 110, 103>>
DotJpg == <<46, 106, 112, 103>>
DotTmp == <<46, 116, 109, 112>>
DotXmp == <<46, 120, 109, 112>>

\* str.rfind(x) + 1: the place of the last x in s, 0 when there is none
RFind(s, x) ==
    Let({i \in 1..Len(s) : s[i] = x}, LAMBDA hits :
        IF hits = {} THEN 0 ELSE CHOOSE i \in hits : \A j \in hits : j <= i)

\* Path.name: what follows the last "/"
Name(p) == SubSeq(p, RFind(p, 47) + 1, Len(p))

\* Path.suffix: the name from its last "." on, unless that is the first or the
\* last character of the name
Suffix(p) ==
    Let(Name(p), LAMBDA name :
    Let(RFind(name, 46), LAMBDA i :
        IF 1 < i /\ i < Len(name) THEN SubSeq(name, i, Len(name)) ELSE <<>>))

\* Path.stem: the name without its suffix
Stem(p) == Let(Name(p), LAMBDA name : SubSeq(name, 1, Len(name) - Len(Suffix(p))))

\* Path.with_suffix(suffix): the suffix replaces the old one, or is appended
WithSuffix(p, suffix) == SubSeq(p, 1, Len(p) - Len(Suffix(p))) \o suffix

\* Path.with_name(name)
WithName(p, name) == SubSeq(p, 1, RFind(p, 47)) \o name

\* dir / name
Join(dir, name) == dir \o <<47>> \o name

\* One temporary name for every target.
TmpPath_Shared(p) == <<120, 46, 116, 109, 112>>

\* The new bytes are written over the target itself.
TmpPath_IsTarget(p) == p

\* png_path.with_suffix(png_path.suffix + ".tmp"), line 307
TmpPath(p) == WithSuffix(p, Suffix(p) \o DotTmp)

\* image_path.with_name(image_path.name + ".xmp")
_sidecar_path_for_image(image_path) == WithName(image_path, Name(image_path) \o DotXmp)

Exists(fsys, p) == p \in DOMAIN fsys

\* The longest file name, in bytes, the file system takes (NAME_MAX of Linux).
NAME_MAX == 255

\* os.stat and open raise OSError (ENAMETOOLONG) for such a path, and
\* Path.exists() passes that error on: it swallows only ENOENT, ENOTDIR, EBADF
\* and ELOOP.
NameTooLong(p) == Len(Name(p)) > NAME_MAX

\* Path.write_bytes / Path.replace / Path.unlink, when they succeed
WriteFile(fsys, p, data) == [q \in DOMAIN fsys \cup {p} |-> IF q = p THEN data ELSE fsys[q]]
RemoveFile(fsys, p) == [q \in DOMAIN fsys \ {p} |-> fsys[q]]
ReplaceFile(fsys, src, dst) == RemoveFile(WriteFile(fsys, dst, fsys[src]), src)

\* _date.today().isoformat(): the day of the run, "2"
Today == <<50>>

\* processed_date or _date.today().isoformat(), of an Optional[str]
EffectiveDate(processed_date) ==
    IF processed_date = None \/ processed_date = Some(<<>>) THEN Today
    ELSE processed_date[1]

---------------------------------------------------------------------------
(* write_processed_xmp_embed_png                                           *)

\* Whether the patcher's loop takes chunk c for the existing XMP chunk (line 291).
IsXmpItxt(data, c) ==
    /\ c.ctype = T_iTXt
    /\ Let(Slice(data, c.chunk_start + 8, c.chunk_end - 4), LAMBDA payload :
       Let(Find(payload, 0, 0), LAMBDA nul :
           nul > 0 /\ Slice(payload, 0, nul) = _XMP_ITXT_KEYWORD))

\* FindPatchPoint with the new chunk put after IEND instead of before it.
FindPatchPoint_AfterIend(data) ==
    Let(_iter_png_chunks(data), LAMBDA chunks :
    Let(FirstIndex(chunks, LAMBDA c : IsXmpItxt(data, c) \/ c.ctype = T_IEND), LAMBDA k :
        IF k = 0 THEN [replace |-> None, insert_at |-> None]
        ELSE IF chunks[k].ctype = T_IEND
        THEN [replace |-> None, insert_at |-> Some(chunks[k].chunk_end)]
        ELSE [replace |-> Some(<<chunks[k].chunk_start, chunks[k].chunk_end>>),
              insert_at |-> None]))

\* FindPatchPoint with the loop going on after a match: the last XMP iTXt chunk
\* before IEND is the one replaced.
FindPatchPoint_LastMatch(data) ==
    Let(_iter_png_chunks(data), LAMBDA chunks :
    Let({k \in 1..Len(chunks) : IsXmpItxt(data, chunks[k])}, LAMBDA xs :
        IF xs # {}
        THEN Let(CHOOSE k \in xs : \A j \in xs : j <= k, LAMBDA k :
                 [replace |-> Some(<<chunks[k].chunk_start, chunks[k].chunk_end>>),
                  insert_at |-> None])
        ELSE IF Len(chunks) > 0 /\ chunks[Len(chunks)].ctype = T_IEND
        THEN [replace |-> None, insert_at |-> Some(chunks[Len(chunks)].chunk_start)]
        ELSE [replace |-> None, insert_at |-> None]))

\* The loop of lines 283-298: the first chunk that is an XMP iTXt chunk or IEND
\* ends it. [replace: Optional <<start, end>>, insert_at: Optional offset]
FindPatchPoint(data) ==
    Let(_iter_png_chunks(data), LAMBDA chunks :
    Let(FirstIndex(chunks, LAMBDA c : IsXmpItxt(data, c) \/ c.ctype = T_IEND), LAMBDA k :
        IF k = 0 THEN [replace |-> None, insert_at |-> None]
        ELSE IF chunks[k].ctype = T_IEND
        THEN [replace |-> None, insert_at |-> Some(chunks[k].chunk_start)]
        ELSE [replace |-> Some(<<chunks[k].chunk_start, chunks[k].chunk_end>>),
              insert_at |-> None]))

\* NewData with the existing chunk kept: the rest of the file is taken from the
\* start of the replaced span instead of its end.
NewData_KeepsOldChunk(data, tool, processed_date) ==
    IF ~StartsWith(data, _PNG_SIG) THEN None
    ELSE Let(_extract_png_itxt_xmp_packet(data), LAMBDA existing_xmp :
         Let(_make_updated_xmp_packet(existing_xmp, tool, processed_date),
             LAMBDA new_xmp_packet :
         Let(_build_png_itxt_xmp_chunk(new_xmp_packet), LAMBDA new_itxt :
         Let(FindPatchPoint(data), LAMBDA at :
             IF at.replace # None
             THEN Some(Slice(data, 0, at.replace[1][1]) \o new_itxt
                       \o Slice(data, at.replace[1][1], Len(data)))
             ELSE IF at.insert_at = None THEN None
             ELSE Some(Slice(data, 0, at.insert_at[1]) \o new_itxt
                       \o Slice(data, at.insert_at[1], Len(data)))))))

\* NewData with the new chunk appended to the file when the scan finds no place.
NewData_AppendsWithoutIend(data, tool, processed_date) ==
    IF ~StartsWith(data, _PNG_SIG) THEN None
    ELSE Let(_extract_png_itxt_xmp_packet(data), LAMBDA existing_xmp :
         Let(_make_updated_xmp_packet(existing_xmp, tool, processed_date),
             LAMBDA new_xmp_packet :
         Let(_build_png_itxt_xmp_chunk(new_xmp_packet), LAMBDA new_itxt :
         Let(FindPatchPoint(data), LAMBDA at :
             IF at.replace # None
             THEN Some(Slice(data, 0, at.replace[1][1]) \o new_itxt
                       \o Slice(data, at.replace[1][2], Len(data)))
             ELSE IF at.insert_at = None THEN Some(data \o new_itxt)
             ELSE Some(Slice(data, 0, at.insert_at[1]) \o new_itxt
                       \o Slice(data, at.insert_at[1], Len(data)))))))

\* Lines 274-305: Optional new buffer (None: the call returns False before writing).
NewData(data, tool, processed_date) ==
    IF ~StartsWith(data, _PNG_SIG) THEN None
    ELSE Let(_extract_png_itxt_xmp_packet(data), LAMBDA existing_xmp :
         Let(_make_updated_xmp_packet(existing_xmp, tool, processed_date),
             LAMBDA new_xmp_packet :
         Let(_build_png_itxt_xmp_chunk(new_xmp_packet), LAMBDA new_itxt :
         Let(FindPatchPoint(data), LAMBDA at :
             IF at.replace # None
             THEN Some(Slice(data, 0, at.replace[1][1]) \o new_itxt
                       \o Slice(data, at.replace[1][2], Len(data)))
             ELSE IF at.insert_at = None THEN None
             ELSE Some(Slice(data, 0, at.insert_at[1]) \o new_itxt
                       \o Slice(data, at.insert_at[1], Len(data)))))))

\* What the environment may do to one call: nothing, fail the read, fail the
\* write of the temporary file before it exists ("write_open") or part way
\* ("write_partial"), or fail the rename; with "_unlink" the removal of the
\* temporary file that follows the failure fails as well.
Faults == {"none", "read", "write_open", "write_partial", "rename",
           "write_open_unlink", "write_partial_unlink", "rename_unlink"}

\* The faults of lines 308-310, and those that make line 315 raise as well.
WriteFaults == Faults \ {"none", "read"}
UnlinkFaults == {"write_open_unlink", "write_partial_unlink", "rename_unlink"}

\* The fault whose write fails as in fault and whose removal fails too.
WithUnlinkFault(fault) ==
    IF fault = "write_open" THEN "write_open_unlink"
    ELSE IF fault = "write_partial" THEN "write_partial_unlink"
    ELSE IF fault = "rename" THEN "rename_unlink"
    ELSE fault

\* The file system the except clause of line 312 finds: write_bytes has created
\* nothing, has written the first half of the buffer, or has written all of it
\* and the rename has failed.
FailedWrite(fsys, tmp, new_data, fault) ==
    IF fault \in {"write_open", "write_open_unlink"} THEN fsys
    ELSE IF fault \in {"write_partial", "write_partial_unlink"}
    THEN WriteFile(fsys, tmp, Slice(new_data, 0, Len(new_data) \div 2))
    ELSE WriteFile(fsys, tmp, new_data)

\* WriteAtomically without the removal of the temporary file after a failure.
WriteAtomically_NoCleanup(fsys, p, new_data, fault) ==
    Let(TmpPath(p), LAMBDA tmp :
        IF NameTooLong(tmp) THEN [result |-> FALSE, fs |-> fsys]
        ELSE IF fault \notin WriteFaults
        THEN [result |-> TRUE, fs |-> ReplaceFile(WriteFile(fsys, tmp, new_data), tmp, p)]
        ELSE [result |-> FALSE, fs |-> FailedWrite(fsys, tmp, new_data, fault)])

\* Lines 307-318: [result, fs] of writing new_data for target p under a fault.
\* After a failure the temporary file is removed when it exists, and stays when
\* the removal raises (the exception is swallowed, lines 316-317).  With a
\* name too long for the temporary file, write_bytes raises and so does
\* tmp.exists(): nothing is created.
WriteAtomically(fsys, p, new_data, fault) ==
    Let(TmpPath(p), LAMBDA tmp :
        IF NameTooLong(tmp) THEN [result |-> FALSE, fs |-> fsys]
        ELSE IF fault \notin WriteFaults
        THEN [result |-> TRUE, fs |-> ReplaceFile(WriteFile(fsys, tmp, new_data), tmp, p)]
        ELSE Let(FailedWrite(fsys, tmp, new_data, fault), LAMBDA f :
                 [result |-> FALSE,
                  fs |-> IF Exists(f, tmp) /\ fault \notin UnlinkFaults
                         THEN RemoveFile(f, tmp) ELSE f]))

\* EmbedPlan without the test of the suffix.
EmbedPlan_NoSuffixTest(fsys, png_path, tool, processed_date) ==
    IF ~Exists(fsys, png_path) THEN [stage |-> "read", new_data |-> <<>>]
    ELSE Let(NewData(fsys[png_path], tool, EffectiveDate(processed_date)),
             LAMBDA new_data :
               IF new_data = None THEN [stage |-> "scan", new_data |-> <<>>]
               ELSE [stage |-> "write", new_data |-> new_data[1]])

\* Lines 263-305 with a readable file system: the step at which the call stops
\* ("suffix": line 265, "read": line 272, "scan": line 275 or 304) or "write",
\* with the buffer it goes on to write.
EmbedPlan(fsys, png_path, tool, processed_date) ==
    IF Lower(Suffix(png_path)) # DotPng THEN [stage |-> "suffix", new_data |-> <<>>]
    ELSE IF ~Exists(fsys, png_path) THEN [stage |-> "read", new_data |-> <<>>]
    ELSE Let(NewData(fsys[png_path], tool, EffectiveDate(processed_date)),
             LAMBDA new_data :
               IF new_data = None THEN [stage |-> "scan", new_data |-> <<>>]
               ELSE [stage |-> "write", new_data |-> new_data[1]])

\* A fault strikes at the step it belongs to; a call that does not get there meets none.
\* The removal can fail only where there is a file to remove: after a write
\* that created nothing, a temporary file that lay there before the call.
FaultStrikes(fsys, png_path, plan, fault) ==
    \/ fault = "none"
    \/ fault = "read" /\ plan.stage \in {"scan", "write"}
    \/ /\ fault \in WriteFaults /\ plan.stage = "write"
       /\ ~NameTooLong(TmpPath(png_path))
       /\ (fault = "write_open_unlink") => Exists(fsys, TmpPath(png_path))

\* The call under a fault: [result: the bool returned, fs: the file system after
\* the call, stage: the last step the call reached].
EmbedFinish(fsys, png_path, plan, fault) ==
    IF plan.stage = "suffix" THEN [result |-> FALSE, fs |-> fsys, stage |-> "suffix"]
    ELSE IF plan.stage = "read" \/ fault = "read"
    THEN [result |-> FALSE, fs |-> fsys, stage |-> "read"]
    ELSE IF plan.stage = "scan" THEN [result |-> FALSE, fs |-> fsys, stage |-> "scan"]
    ELSE Let(WriteAtomically(fsys, png_path, plan.new_data, fault),
             LAMBDA w : [result |-> w.result, fs |-> w.fs, stage |-> "write"])

write_processed_xmp_embed_png(fsys, png_path, tool, processed_date, fault) ==
    Let(EmbedPlan(fsys, png_path, tool, processed_date),
        LAMBDA plan : EmbedFinish(fsys, png_path, plan, fault))

---------------------------------------------------------------------------
(* Inputs: tools, dates, packets and files                                 *)

\* "removebg-square-cli"
DEFAULT_PROCESS_TOOL == <<114, 101, 109, 111, 118, 101, 98, 103, 45, 115, 113, 117, 97, 114, 101, 45, 99, 108, 105>>

\* The tools of the calls: "a", "b", and "a " (an identifier with a space after it).
ToolA  == <<97>>
ToolB  == <<98>>
ToolSp == <<97, 32>>
Tools  == {ToolA, ToolB, ToolSp}

\* The dates of the calls: "1", or none given (the day of the run is used).
Date1 == <<49>>
Dates == {Some(Date1), None}

Meta(descKids) ==
    LET desc == [Element("rdf:Description") EXCEPT !.kids = descKids]
    IN  SubElement(Element("x:xmpmeta"), SubElement(Element("rdf:RDF"), desc))
Li(lang, text) == [Element("rdf:li") EXCEPT !.lang = lang, !.text = text]
Wrapped(meta, tail) == SubElement(Element("wrapper"), [meta EXCEPT !.tail = tail])

\* A packet as another tool wrote it: a title, the keyword " ProcessedWith:a "
\* (white space around it) and "k", descriptions in "en" and " X-Default ".
RichMeta ==
    Meta(<<Element("dc:title"),
           SubElement(Element("dc:subject"),
               [Element("rdf:Bag") EXCEPT !.kids =
                   <<Li(None, <<32>> \o KeywordFor(ToolA) \o <<32>>), Li(None, <<107>>)>>]),
           SubElement(Element("dc:description"),
               [Element("rdf:Alt") EXCEPT !.kids =
                   <<Li(Some(<<101, 110>>), <<111>>),
                     Li(Some(<<32, 88, 45, 68, 101, 102, 97, 117, 108, 116, 32>>), <<100>>)>>])>>)

\* A packet as another tool wrote it that holds the tags of tool "a" and date "1"
\* already: the keyword with white space around it, the description as x-default.
TaggedMeta ==
    Meta(<<SubElement(Element("dc:subject"),
               SubElement(Element("rdf:Bag"),
                   Li(None, <<32>> \o KeywordFor(ToolA) \o <<32>>))),
           SubElement(Element("dc:description"),
               SubElement(Element("rdf:Alt"),
                   Li(Some(X_DEFAULT), DescTextFor(ToolA, Date1))))>>)

\* The XMP packets a file may already hold: what a first call with tool "a" and
\* date "1" writes; the rich packet; an xmpmeta inside a wrapper element, followed
\* there by a line feed or by the text "t"; an xmpmeta with no rdf:RDF; a document
\* with no xmpmeta; bytes that are no XML; nothing.
PacketNames ==
    {"fresh", "rich", "wrap_ws", "wrap_text", "no_rdf", "no_meta", "junk", "empty"}

Packet(name) ==
    CASE name = "fresh"     -> _make_updated_xmp_packet(None, ToolA, Date1)
      [] name = "rich"      -> XmlElementText(RichMeta)
      [] name = "wrap_ws"   -> XmlElementText(Wrapped(Meta(<<>>), <<10>>))
      [] name = "wrap_text" -> XmlElementText(Wrapped(RichMeta, <<116>>))
      [] name = "no_rdf"    -> XmlToString(Element("x:xmpmeta"))
      [] name = "no_meta"   -> XmlElementText(Element("wrapper"))
      [] name = "junk"      -> <<60, 120, Tok.bad>>
      [] name = "empty"     -> <<>>
      [] name = "tagged"    -> XmlElementText(TaggedMeta)
      [] name = "spaced"    -> _make_updated_xmp_packet(None, ToolSp, Date1)

\* A file is described by its parts: raw bytes, a chunk to build from its type and
\* payload, or an XMP chunk to build from the packet of that name.
Raw(bytes) == [kind |-> "raw", ctype |-> <<>>, payload |-> bytes, packet |-> ""]
Chunk(ctype, payload) ==
    [kind |-> "chunk", ctype |-> ctype, payload |-> payload, packet |-> ""]
ChXmp(name) == [kind |-> "xmp", ctype |-> T_iTXt, payload |-> <<>>, packet |-> name]

BuildPart(part) ==
    IF part.kind = "raw" THEN part.payload
    ELSE IF part.kind = "chunk" THEN _build_png_chunk(part.ctype, part.payload)
    ELSE _build_png_itxt_xmp_chunk(Packet(part.packet))

\* The bytes of the file a description stands for.
BuildFile(parts) == Let([k \in 1..Len(parts) |-> BuildPart(parts[k])], Concat)

\* Chunks of a 1x1 greyscale image, and text chunks.
Sig    == Raw(_PNG_SIG)
ChIHDR == Chunk(T_IHDR, <<0, 0, 0, 1, 0, 0, 0, 1, 8, 0, 0, 0, 0>>)
ChIDAT == Chunk(T_IDAT, <<120, 156, 99, 96, 0, 0, 0, 2, 0, 1>>)
ChIEND == Chunk(T_IEND, <<>>)
ChText == Chunk(T_tEXt, <<107, 0, 118>>)
\* an iTXt chunk with another keyword ("k")
ChOtherItxt == Chunk(T_iTXt, <<107, 0, 0, 0, 0, 0, 118>>)
\* an iTXt chunk with the XMP keyword whose header stops after the compression flag
ChShortXmp == Chunk(T_iTXt, _XMP_ITXT_KEYWORD \o <<0, 0>>)

\* The 67-byte image of the specification's example: no XMP chunk.
PngMinimal == <<Sig, ChIHDR, ChIDAT, ChIEND>>
PngWith(name) == <<Sig, ChIHDR, ChXmp(name), ChIDAT, ChIEND>>

\* Well-formed files: the signature, then chunks, the last of them IEND.
WellFormedFiles ==
    {PngMinimal}
    \cup {PngWith(name) : name \in PacketNames}
    \cup {<<Sig, ChIHDR, ChOtherItxt, ChText, ChIDAT, ChIEND>>,
          <<Sig, ChIHDR, ChShortXmp, ChIDAT, ChXmp("rich"), ChIEND>>,
          <<Sig, ChIHDR, ChXmp("fresh"), ChXmp("rich"), ChIDAT, ChIEND>>}

\* Other files: no signature (a JPEG, an empty file), no IEND, a chunk that
\* overruns the buffer (declared length 100, or 2^32 - 1), an XMP chunk but no
\* IEND, bytes after IEND, an XMP chunk after IEND.
OtherFiles ==
    {<<Raw(<<255, 216, 255, 224, 0, 16, 74, 70, 73, 70>>)>>,
     <<Raw(<<>>)>>,
     <<Sig>>,
     <<Sig, ChIHDR, ChIDAT>>,
     <<Sig, ChIHDR, Raw(<<0, 0, 0, 100>> \o T_IDAT \o <<1, 2, 3>>), ChIEND>>,
     <<Sig, ChIHDR, Raw(<<255, 255, 255, 255>> \o T_IDAT), ChIEND>>,
     <<Sig, ChIHDR, ChXmp("fresh"), ChIDAT>>,
     <<Sig, ChIHDR, ChIDAT, ChIEND, Raw(<<0, 1>>)>>,
     <<Sig, ChIHDR, ChIEND, ChXmp("fresh")>>}

Files == WellFormedFiles \cup OtherFiles

---------------------------------------------------------------------------
(* write_processed_xmp_sidecar and write_processed_tags                     *)

\* What the environment may do to one call of the sidecar writer: nothing, fail
\* the first sidecar.exists() (line 337, "stat": the stat is refused), fail the
\* read, fail the second sidecar.exists() (line 355, "stat_late"), or fail the
\* write before the file exists or part way.
SidecarFaults == {"none", "stat", "read", "stat_late", "write_open", "write_partial"}

\* The call does not return: sidecar.exists() stands outside the try blocks.
SidecarRaises(fsys) == [raised |-> TRUE, result |-> FALSE, fs |-> fsys, wrote |-> FALSE]

\* write_processed_xmp_sidecar without the early return of lines 355-356.
write_processed_xmp_sidecar_AlwaysWrites(fsys, image_path, tool, processed_date, fault) ==
    Let(_sidecar_path_for_image(image_path), LAMBDA sidecar :
        IF NameTooLong(sidecar) \/ fault = "stat" THEN SidecarRaises(fsys)
        ELSE
    Let(UpdatedRoot(IF Exists(fsys, sidecar) /\ fault # "read" THEN Some(fsys[sidecar])
                    ELSE None,
                    tool, EffectiveDate(processed_date)), LAMBDA u :
        IF fault = "write_open"
        THEN [raised |-> FALSE, result |-> FALSE, fs |-> fsys, wrote |-> TRUE]
        ELSE Let(_serialize_xmpmeta(u.root), LAMBDA packet :
             IF fault = "write_partial"
             THEN [raised |-> FALSE, result |-> FALSE, wrote |-> TRUE,
                   fs |-> WriteFile(fsys, sidecar, Slice(packet, 0, Len(packet) \div 2))]
             ELSE [raised |-> FALSE, result |-> TRUE, wrote |-> TRUE,
                   fs |-> WriteFile(fsys, sidecar, packet)])))

\* Lines 331-362.
\* [raised: whether an exception left the function (sidecar.exists() raised,
\*  line 337 or 355), result: the bool returned, fs: the file system after the
\*  call, wrote: whether write_bytes was called]
write_processed_xmp_sidecar(fsys, image_path, tool, processed_date, fault) ==
    Let(_sidecar_path_for_image(image_path), LAMBDA sidecar :
        IF NameTooLong(sidecar) \/ fault = "stat" THEN SidecarRaises(fsys)
        ELSE
    Let(UpdatedRoot(IF Exists(fsys, sidecar) /\ fault # "read" THEN Some(fsys[sidecar])
                    ELSE None,
                    tool, EffectiveDate(processed_date)), LAMBDA u :
        IF ~u.changed /\ fault = "stat_late" THEN SidecarRaises(fsys)
        ELSE IF ~u.changed /\ Exists(fsys, sidecar)
        THEN [raised |-> FALSE, result |-> TRUE, fs |-> fsys, wrote |-> FALSE]
        ELSE IF fault = "write_open"
        THEN [raised |-> FALSE, result |-> FALSE, fs |-> fsys, wrote |-> TRUE]
        ELSE Let(_serialize_xmpmeta(u.root), LAMBDA packet :
             IF fault = "write_partial"
             THEN [raised |-> FALSE, result |-> FALSE, wrote |-> TRUE,
                   fs |-> WriteFile(fsys, sidecar, Slice(packet, 0, Len(packet) \div 2))]
             ELSE [raised |-> FALSE, result |-> TRUE, wrote |-> TRUE,
                   fs |-> WriteFile(fsys, sidecar, packet)])))

\* Lines 373-390.
\* [raised: whether the sidecar call raised, and with it this call (no handler
\*  is around line 386); result: the bool returned; fs: the file system after
\*  the call, with what the embed has done before the sidecar call;
\*  embedded: whether line 380 ran, scalled: whether line 386 ran,
\*  swrote: whether the sidecar call reached write_bytes, sresult: what it returned]
write_processed_tags(fsys, image_path, tool, processed_date, embed_png, also_write_sidecar, fault, sfault) ==
    Let(IF Lower(Suffix(image_path)) = DotPng /\ embed_png
        THEN write_processed_xmp_embed_png(fsys, image_path, tool,
                 Some(EffectiveDate(processed_date)), fault)
        ELSE [result |-> FALSE, fs |-> fsys, stage |-> "skipped"], LAMBDA e :
        IF also_write_sidecar \/ Lower(Suffix(image_path)) # DotPng
        THEN Let(write_processed_xmp_sidecar(e.fs, image_path, tool,
                     Some(EffectiveDate(processed_date)), sfault),
                 LAMBDA s : [raised |-> s.raised,
                             result |-> ~s.raised /\ (e.result \/ s.result), fs |-> s.fs,
                             embedded |-> e.stage # "skipped", scalled |-> TRUE,
                             swrote |-> s.wrote, sresult |-> s.result])
        ELSE [raised |-> FALSE, result |-> e.result, fs |-> e.fs,
              embedded |-> e.stage # "skipped",
              scalled |-> FALSE, swrote |-> FALSE, sresult |-> FALSE])

\* The embed fault strikes only a call that embeds and gets to the fault's step.
TagsFaultStrikes(fsys, image_path, tool, processed_date, embed_png, fault) ==
    IF Lower(Suffix(image_path)) = DotPng /\ embed_png
    THEN FaultStrikes(fsys, image_path,
                      EmbedPlan(fsys, image_path, tool,
                                Some(EffectiveDate(processed_date))), fault)
    ELSE fault = "none"

\* The sidecar fault strikes only a sidecar call that gets to the fault's step:
\* the first test of existence, the read of an existing sidecar, the second
\* test of existence (made when no update reports a change), or the write.  A
\* call whose sidecar name is too long raises by itself and meets no fault.
SidecarFaultStrikes(fsys, image_path, r, sfault) ==
    \/ sfault = "none"
    \/ /\ r.scalled
       /\ ~NameTooLong(_sidecar_path_for_image(image_path))
       /\ (sfault \in {"stat", "stat_late"}) => r.raised
       /\ (sfault = "read") => Exists(fsys, _sidecar_path_for_image(image_path))
       /\ (sfault \in {"write_open", "write_partial"}) => r.swrote

---------------------------------------------------------------------------
(* Calls of the embedder on a small file system                            *)

\* "a.png", "b.jpg", and "c.PnG": a PNG named in mixed case
PngPath == <<97, 46, 112, 110, 103>>
JpgPath == <<98, 46, 106, 112, 103>>
MixedPath == <<99, 46, 80, 110, 71>>

\* "bbb...b.jpg", a name of 252 characters: the file can exist, and the name of
\* its sidecar, four characters longer, is too long.
LongPath == [i \in 1..(NAME_MAX - 7) |-> 98] \o DotJpg

\* How many calls one run makes.
MaxCalls == 2

NoCall == [op |-> "none", path |-> <<>>, tool |-> <<>>, date |-> None, embed |-> FALSE,
           sidecar |-> FALSE, fault |-> "none", sfault |-> "none", stage |-> "none",
           scalled |-> FALSE, swrote |-> FALSE, sresult |-> FALSE, result |-> FALSE,
           raised |-> FALSE]

NoBatch == [pc |-> "idle"]

\* No invocation is in progress step by step.
NoProcs == <<>>

\* No function has been applied on its own.
NoPure == [op |-> "none"]

\* a.png holds any of the files or is missing; b.jpg and c.PnG hold the bytes of
\* a valid PNG; a temporary file left behind by someone else may lie beside a.png.
InitialFs(content, stale) ==
    Let(WriteFile(JpgPath :> BuildFile(PngMinimal), MixedPath, BuildFile(PngMinimal)),
        LAMBDA f0 :
    Let(IF content = None THEN f0 ELSE WriteFile(f0, PngPath, BuildFile(content[1])),
        LAMBDA f1 : IF stale THEN WriteFile(f1, TmpPath(PngPath), <<1>>) ELSE f1))

Init ==
    /\ \E content \in {Some(f) : f \in Files} \cup {None}, stale \in BOOLEAN :
         /\ stale => content \in {Some(PngMinimal), Some(PngWith("fresh")),
                                  Some(<<Sig, ChIHDR, ChIDAT>>)}
         /\ fs = InitialFs(content, stale)
    /\ fs0 = fs
    /\ pre = fs
    /\ last = NoCall
    /\ prev = NoCall
    /\ ncalls = 0
    /\ batch = NoBatch
    /\ procs = NoProcs
    /\ pure = NoPure

\* One call write_processed_xmp_embed_png(p, tool=tool, processed_date=date),
\* under any fault that can strike it.
EmbedCall(p, tool, date) ==
    /\ ncalls < MaxCalls
    /\ \E plan \in {EmbedPlan(fs, p, tool, date)} :
         \E fault \in Faults :
           /\ FaultStrikes(fs, p, plan, fault)
           /\ \E r \in {EmbedFinish(fs, p, plan, fault)} :
                /\ fs' = r.fs
                /\ last' = [NoCall EXCEPT !.op = "embed", !.path = p, !.tool = tool,
                                          !.date = date, !.fault = fault,
                                          !.stage = r.stage, !.result = r.result]
    /\ pre' = fs
    /\ prev' = last
    /\ ncalls' = ncalls + 1
    /\ UNCHANGED <<fs0, batch, procs, pure>>

\* The calls of a run: any tool and date on a.png, tool "a" and date "1" on
\* b.jpg and on c.PnG.
EmbedCalls ==
    ({PngPath} \X Tools \X Dates) \cup ({JpgPath, MixedPath} \X {ToolA} \X {Some(Date1)})

Next ==
    \E call \in EmbedCalls : EmbedCall(call[1], call[2], call[3])

Spec == Init /\ [][Next]_vars

---------------------------------------------------------------------------
(* Calls of write_processed_tags on a small file system                    *)

\* The bytes b.jpg holds: the start of a JPEG file.
JpegBytes == <<255, 216, 255, 224, 0, 16, 74, 70, 73, 70>>

\* What a sidecar may hold before the call: nothing (no file), the packet a call
\* with tool "a" and date "1" writes, the rich packet, bytes that are no XML,
\* another tool's packet that holds the tags already, or the packet a call with
\* tool "a " and date "1" writes.
SidecarContents ==
    {None, Some("fresh"), Some("rich"), Some("junk"), Some("tagged"), Some("spaced")}

PutSidecar(fsys, image_path, content) ==
    IF content = None THEN fsys
    ELSE WriteFile(fsys, _sidecar_path_for_image(image_path), Packet(content[1]))

\* a.png holds a PNG without or with a packet, a truncated PNG, or is missing;
\* b.jpg holds a JPEG; one of the two may have a sidecar already; c.PnG holds a
\* PNG; the file with the long name holds a JPEG.
TagsInitialFs(png, pngSide, jpgSide) ==
    Let(WriteFile(WriteFile(JpgPath :> JpegBytes, MixedPath, BuildFile(PngMinimal)),
                  LongPath, JpegBytes), LAMBDA f0 :
    Let(IF png = None THEN f0 ELSE WriteFile(f0, PngPath, BuildFile(png[1])), LAMBDA f1 :
        PutSidecar(PutSidecar(f1, PngPath, pngSide), JpgPath, jpgSide)))

\* How many calls of write_processed_tags one run makes.
MaxTagsCalls == 1

InitTags ==
    /\ \E png \in {Some(PngMinimal), Some(PngWith("fresh")), Some(<<Sig, ChIHDR>>), None},
          pngSide \in SidecarContents, jpgSide \in SidecarContents :
         /\ pngSide = None \/ jpgSide = None
         /\ fs = TagsInitialFs(png, pngSide, jpgSide)
    /\ fs0 = fs
    /\ pre = fs
    /\ last = NoCall
    /\ prev = NoCall
    /\ ncalls = 0
    /\ batch = NoBatch
    /\ procs = NoProcs
    /\ pure = NoPure

\* One call write_processed_tags(p, tool=tool, processed_date=date,
\* embed_png=embed_png, also_write_sidecar=also_write_sidecar), under any faults
\* that can strike it.
TagsCall(p, tool, date, embed_png, also_write_sidecar) ==
    /\ ncalls < MaxTagsCalls
    /\ \E fault \in Faults, sfault \in SidecarFaults :
         /\ TagsFaultStrikes(fs, p, tool, date, embed_png, fault)
         /\ \E r \in {write_processed_tags(fs, p, tool, date, embed_png,
                                           also_write_sidecar, fault, sfault)} :
              /\ SidecarFaultStrikes(fs, p, r, sfault)
              /\ fs' = r.fs
              /\ last' = [NoCall EXCEPT !.op = "tags", !.path = p, !.tool = tool,
                                        !.date = date, !.embed = embed_png,
                                        !.sidecar = also_write_sidecar,
                                        !.fault = fault, !.sfault = sfault,
                                        !.stage = IF r.embedded THEN "embed" ELSE "skipped",
                                        !.scalled = r.scalled, !.swrote = r.swrote,
                                        !.sresult = r.sresult, !.result = r.result,
                                        !.raised = r.raised]
    /\ pre' = fs
    /\ prev' = last
    /\ ncalls' = ncalls + 1
    /\ UNCHANGED <<fs0, batch, procs, pure>>

\* The calls of a run: tool "a" or "b" and any date on a.png and on b.jpg, tool
\* "a " and date "1" on b.jpg, tool "a" and date "1" on c.PnG and on the file
\* with the long name.
TagsCalls ==
    ({PngPath, JpgPath} \X {ToolA, ToolB} \X Dates) \cup ({JpgPath} \X {ToolSp} \X {Some(Date1)}) \cup ({MixedPath, LongPath} \X {ToolA} \X {Some(Date1)})

NextTags ==
    \E call \in TagsCalls, embed_png \in BOOLEAN, also_write_sidecar \in BOOLEAN :
        TagsCall(call[1], call[2], call[3], embed_png, also_write_sidecar)

SpecTags == InitTags /\ [][NextTags]_vars

---------------------------------------------------------------------------
(* process_folder (core.py) and run_impl (cli.py)                          *)

\* How many input files a run finds.
MaxFiles == 2

\* ".bmp", ".jpeg"
DotBmp == <<46, 98, 109, 112>>
DotJpeg == <<46, 106, 112, 101, 103>>

\* input_dir and output_dir: "in" and "out"
InputDir == <<105, 110>>
OutputDir == <<111, 117, 116>>

\* temp_dir = output_dir / "_tmp_removebg" (line 271)
TempDir == Join(OutputDir, <<95, 116, 109, 112, 95, 114, 101, 109, 111, 118, 101, 98, 103>>)

\* bad_dir = output_dir / "bad" (line 274)
BadDir == Join(OutputDir, <<98, 97, 100>>)

\* The stem of the k-th input file, in the sorted order of iter_input_files:
\* "i1", "i2", "i3", "i4".
InputStem(k) == <<<<105, 49>>, <<105, 50>>, <<105, 51>>, <<105, 52>>>>[k]

\* The k-th input file with suffix ext, and the bytes it holds.
InputPath(k, ext) == Join(InputDir, InputStem(k) \o ext)
InputBytes(k) == <<73, k>>

\* The suffixes the k-th input file may have: one that is passed on as it is
\* and, for the first file, one that normalize_input_to_png converts first.
InputExts(k) == IF k = 1 THEN {DotPng, DotBmp} ELSE {DotPng}

\* output_dir / f"{path.stem}{out_ext}"
OutPath(path, out_ext) == Join(OutputDir, Stem(path) \o out_ext)

\* str(n) of a natural number
RECURSIVE Decimal(_)
Decimal(n) == IF n < 10 THEN <<48 + n>> ELSE Decimal(n \div 10) \o <<48 + (n % 10)>>

\* str(e) of a caught exception, and the text of an answer: "" or "E".
ErrorTexts == {<<>>, <<69>>}

\* What the environment may do to one call of _copy_to_bad_folder: nothing, fail
\* the copy, or fail the writing of the note.
BadFaults == {"none", "copy", "note"}

\* resp.reason for the statuses that are copied to the bad folder:
\* "Bad Request", "Forbidden".
ReasonPhrase(status) ==
    IF status = 400 THEN <<66, 97, 100, 32, 82, 101, 113, 117, 101, 115, 116>>
    ELSE IF status = 403 THEN <<70, 111, 114, 98, 105, 100, 100, 101, 110>>
    ELSE <<>>

\* What remove.bg's endpoint may answer to one request, or the request fails
\* (requests.RequestException with str(e) = text); phrase: resp.reason; text:
\* resp.text; content: resp.content; stored: whether writing the answer to the
\* temporary directory succeeds.
Statuses == {200, 204, 400, 403, 404, 429, 500}
Requests ==
    {[kind |-> "request_exception", status |-> 0, phrase |-> <<>>, text |-> t,
      content |-> <<>>, stored |-> FALSE] : t \in ErrorTexts}
    \cup {[kind |-> "response", status |-> st, phrase |-> ReasonPhrase(st), text |-> t,
           content |-> <<>>, stored |-> FALSE] : st \in {400, 403}, t \in ErrorTexts}
    \cup {[kind |-> "response", status |-> st, phrase |-> <<>>, text |-> <<>>,
           content |-> <<>>, stored |-> FALSE] : st \in Statuses \ {200, 400, 403}}
    \cup {[kind |-> "response", status |-> 200, phrase |-> <<79, 75>>, text |-> <<>>,
           content |-> <<1, 2, 3>>, stored |-> st] : st \in BOOLEAN}

\* requests.Response.raise_for_status(): raises HTTPError for a client or server
\* error status.
RaisesForStatus(status) == status >= 400 /\ status < 600

\* str(e) of the KeyError that img.save(out_path, format="JPG") raises (lines
\* 120, 124): "'JPG'".  The imaging library registers its JPEG writer under the
\* name "JPEG" only, and looks the format up before it opens the file.
SaveFormatError == <<39, 74, 80, 71, 39>>

\* normalize_input_to_png(input_path, out_path): an input with another suffix
\* than .png, .jpeg, .jpg is opened and saved with format="JPG"; the open
\* raises, or else the save does, and no file is written.
\* [raised: whether an exception left the function, path: the path returned,
\*  fs: the file system after the call]
normalize_input_to_png(fsys, input_path, out_path) ==
    IF Lower(Suffix(input_path)) \in {DotPng, DotJpeg, DotJpg}
    THEN [raised |-> FALSE, path |-> input_path, fs |-> fsys]
    ELSE [raised |-> TRUE, path |-> <<>>, fs |-> fsys]

\* _copy_to_bad_folder(src, bad_dir, reason, extra_text)
\* [dst: the Optional path returned, fs: the file system after the call]
_copy_to_bad_folder(fsys, src, bad_dir, reason, extra_text, bfault) ==
    Let(Join(bad_dir, Name(src)), LAMBDA dst :
    Let(bfault # "copy" /\ Exists(fsys, src) /\ ~NameTooLong(dst), LAMBDA copied :
    Let(IF copied THEN WriteFile(fsys, dst, fsys[src]) ELSE fsys, LAMBDA f1 :
    Let(Join(bad_dir, Stem(src) \o <<95, 69, 82, 82, 79, 82, 46, 116, 120, 116>>), LAMBDA note :
    Let(reason \o <<10>>
        \o (IF extra_text # <<>> THEN <<10>> \o extra_text \o <<10>> ELSE <<>>), LAMBDA msg :
        [dst |-> IF copied THEN Some(dst) ELSE None,
         fs |-> IF bfault = "note" \/ NameTooLong(note) THEN f1
                ELSE WriteFile(f1, note, msg)])))))

\* "remove.bg request failed (network/timeout)"
NoteRequestFailed == <<114, 101, 109, 111, 118, 101, 46, 98, 103, 32, 114, 101, 113, 117, 101, 115, 116, 32, 102, 97, 105, 108, 101, 100, 32, 40, 110, 101, 116, 119, 111, 114, 107, 47, 116, 105, 109, 101, 111, 117, 116, 41>>

\* f"remove.bg HTTP {resp.status_code} {resp.reason} (ignored)"
NoteHttp(status, phrase) ==
    <<114, 101, 109, 111, 118, 101, 46, 98, 103, 32, 72, 84, 84, 80, 32>> \o Decimal(status)
    \o <<32>> \o phrase \o <<32, 40, 105, 103, 110, 111, 114, 101, 100, 41>>

\* "removebg_request_failed"
ReasonRequestFailed == <<114, 101, 109, 111, 118, 101, 98, 103, 95, 114, 101, 113, 117, 101, 115, 116, 95, 102, 97, 105, 108, 101, 100>>

\* f"removebg_http_{resp.status_code}"
ReasonHttp(status) == <<114, 101, 109, 111, 118, 101, 98, 103, 95, 104, 116, 116, 112, 95>> \o Decimal(status)

\* [path: the Optional path returned, raised: whether an exception left the
\*  function, reason: the fail_reason returned, fs: the file system after the call]
removebg_via_requests(fsys, input_path, out_dir, bad_dir, req, bfault) ==
    Let(Join(out_dir, Stem(input_path) \o DotJpg), LAMBDA out_path :
        IF req.kind = "request_exception"
        THEN [path |-> None, raised |-> FALSE, reason |-> ReasonRequestFailed,
              fs |-> _copy_to_bad_folder(fsys, input_path, bad_dir, NoteRequestFailed,
                                         req.text, bfault).fs]
        ELSE IF req.status = 200
        THEN IF req.stored /\ ~NameTooLong(out_path)
             THEN [path |-> Some(out_path), raised |-> FALSE, reason |-> <<>>,
                   fs |-> WriteFile(fsys, out_path, req.content)]
             ELSE [path |-> None, raised |-> TRUE, reason |-> <<>>, fs |-> fsys]
        ELSE IF req.status >= 400 /\ req.status <= 403
        THEN [path |-> None, raised |-> FALSE, reason |-> ReasonHttp(req.status),
              fs |-> _copy_to_bad_folder(fsys, input_path, bad_dir,
                                         NoteHttp(req.status, req.phrase),
                                         req.text, bfault).fs]
        ELSE [path |-> None, raised |-> RaisesForStatus(req.status),
              reason |-> ReasonHttp(req.status), fs |-> fsys])

\* Whether removebg_via_requests calls _copy_to_bad_folder for this answer.
CopiesToBad(req) ==
    req.kind = "request_exception" \/ (req.status >= 400 /\ req.status <= 403)

\* out_img.save(out_path): the format follows the extension.
SavedImage(out_ext) ==
    IF Lower(out_ext) = DotPng THEN BuildFile(PngMinimal) ELSE JpegBytes

\* The steps of one iteration that may fail and are caught.
CaughtFailures == {"normalize", "open", "paste", "save"}

\* The reason recorded for a caught failure: "normalize_failed",
\* "open_removebg_output_failed", "canvas_paste_failed", "save_failed".
FailReason(step) ==
    IF step = "normalize" THEN <<110, 111, 114, 109, 97, 108, 105, 122, 101, 95, 102, 97, 105, 108, 101, 100>>
    ELSE IF step = "open" THEN <<111, 112, 101, 110, 95, 114, 101, 109, 111, 118, 101, 98, 103, 95, 111, 117, 116, 112, 117, 116, 95, 102, 97, 105, 108, 101, 100>>
    ELSE IF step = "paste" THEN <<99, 97, 110, 118, 97, 115, 95, 112, 97, 115, 116, 101, 95, 102, 97, 105, 108, 101, 100>>
    ELSE <<115, 97, 118, 101, 95, 102, 97, 105, 108, 101, 100>>

\* The first line of the note written for a caught failure:
\* "Normalize/open failed (skipped)", "Failed to open remove.bg output (skipped)",
\* "Canvas/paste failed (skipped)", "Save output failed (skipped)".
FailNote(step) ==
    IF step = "normalize" THEN <<78, 111, 114, 109, 97, 108, 105, 122, 101, 47, 111, 112, 101, 110, 32, 102, 97, 105, 108, 101, 100, 32, 40, 115, 107, 105, 112, 112, 101, 100, 41>>
    ELSE IF step = "open" THEN <<70, 97, 105, 108, 101, 100, 32, 116, 111, 32, 111, 112, 101, 110, 32, 114, 101, 109, 111, 118, 101, 46, 98, 103, 32, 111, 117, 116, 112, 117, 116, 32, 40, 115, 107, 105, 112, 112, 101, 100, 41>>
    ELSE IF step = "paste" THEN <<67, 97, 110, 118, 97, 115, 47, 112, 97, 115, 116, 101, 32, 102, 97, 105, 108, 101, 100, 32, 40, 115, 107, 105, 112, 112, 101, 100, 41>>
    ELSE <<83, 97, 118, 101, 32, 111, 117, 116, 112, 117, 116, 32, 102, 97, 105, 108, 101, 100, 32, 40, 115, 107, 105, 112, 112, 101, 100, 41>>

\* The state of process_folder at the head of its loop; files: the input files
\* in the order of iter_input_files.
process_folder(files, out_ext, embed_png_xmp, also_write_xmp_sidecar, via_cli) ==
    [pc |-> "loop", via_cli |-> via_cli, files |-> files, n |-> Len(files), idx |-> 1,
     out_ext |-> out_ext,
     xmp_tool |-> DEFAULT_PROCESS_TOOL, embed_png_xmp |-> embed_png_xmp,
     also_write_xmp_sidecar |-> also_write_xmp_sidecar,
     processed |-> 0, unprocessed |-> 0, written |-> <<>>,
     processed_files |-> <<>>, unprocessed_files |-> <<>>]

\* run_impl: the options of the command line become the arguments of
\* process_folder; the extension is fixed.
run_impl(files, embed_xmp, xmp_sidecar) ==
    process_folder(files, DotJpg, embed_xmp, xmp_sidecar, TRUE)

\* The input directory with its files; the output directory is empty.
BatchInitialFs(files) ==
    [p \in {files[k] : k \in 1..Len(files)} |->
        InputBytes(CHOOSE k \in 1..Len(files) : files[k] = p)]

InitBatch ==
    /\ last = NoCall
    /\ prev = NoCall
    /\ ncalls = 0
    /\ procs = NoProcs
    /\ pure = NoPure
    /\ \E n \in 0..MaxFiles, embed \in BOOLEAN, sidecar \in BOOLEAN :
       \E exts \in {e \in [1..n -> {DotPng, DotBmp}] : \A k \in 1..n : e[k] \in InputExts(k)} :
       \E files \in {[k \in 1..n |-> InputPath(k, exts[k])]} :
         /\ fs = BatchInitialFs(files)
         /\ \/ batch = run_impl(files, embed, sidecar)
            \/ batch = process_folder(files, DotPng, embed, sidecar, FALSE)
    /\ fs0 = fs
    /\ pre = fs

\* unprocessed += 1; _record_unprocessed(...); continue
Skipped(b, dest, reason) ==
    [b EXCEPT !.idx = b.idx + 1, !.unprocessed = b.unprocessed + 1,
              !.unprocessed_files = Append(b.unprocessed_files,
                  [src |-> Name(b.files[b.idx]), dest |-> dest, reason |-> reason])]

\* Lines 314-318 for the file at the head of the loop.
Normalized(fsys, path) ==
    normalize_input_to_png(fsys, path,
        Join(TempDir, Stem(path) \o <<95, 110, 111, 114, 109, 97, 108, 105, 122, 101, 100, 46, 112, 110, 103>>))

\* An iteration in which a step fails and the failure is caught (lines 315-332,
\* 354-411): the file is copied to the bad folder with a note; text: str(e),
\* which for a failed normalisation is the text of the failed open or that of
\* the failed save.  The normalisation fails for the inputs that are normalised
\* and for no other.  After the normalisation the iteration has stored the
\* service's answer.
SkipFile(step, text, bfault) ==
    /\ batch.pc = "loop"
    /\ batch.idx <= batch.n
    /\ \E path \in {batch.files[batch.idx]} :
       \E norm \in {Normalized(fs, path)} :
         /\ norm.raised <=> (step = "normalize")
         /\ (text = SaveFormatError) => (step = "normalize")
         /\ \E rb \in {IF norm.raised
                       THEN [path |-> None, raised |-> FALSE, reason |-> <<>>, fs |-> fs]
                       ELSE removebg_via_requests(norm.fs, norm.path, TempDir, BadDir,
                                CHOOSE q \in Requests : q.status = 200 /\ q.stored,
                                "none")} :
            \E bad \in {_copy_to_bad_folder(rb.fs, path, BadDir, FailNote(step),
                                            text, bfault)} :
              /\ ~rb.raised
              /\ fs' = bad.fs
              /\ batch' = Skipped(batch, IF bad.dst = None THEN <<>> ELSE Name(bad.dst[1]),
                                  FailReason(step))
    /\ pre' = fs
    /\ UNCHANGED <<fs0, last, prev, ncalls, procs, pure>>

\* An iteration in which removebg_via_requests returns no path (lines 334-352),
\* or does not return at all: no handler in process_folder is around the call.
RemoveBgFails(req, bfault) ==
    /\ batch.pc = "loop"
    /\ batch.idx <= batch.n
    /\ (bfault # "none") => CopiesToBad(req)
    /\ \E path \in {batch.files[batch.idx]} :
       \E norm \in {Normalized(fs, path)} :
       \E r \in {IF norm.raised
                 THEN [path |-> None, raised |-> FALSE, reason |-> <<>>, fs |-> fs]
                 ELSE removebg_via_requests(norm.fs, norm.path, TempDir, BadDir, req,
                                            bfault)} :
         /\ ~norm.raised
         /\ r.path = None
         /\ fs' = r.fs
         /\ batch' = IF r.raised THEN [batch EXCEPT !.pc = "raised"]
                     ELSE Skipped(batch, Name(Join(BadDir, Name(path))),
                                  IF r.reason = <<>> THEN <<114, 101, 109, 111, 118, 101, 98, 103, 95, 102, 97, 105, 108, 101, 100>>
                                  ELSE r.reason)
    /\ pre' = fs
    /\ UNCHANGED <<fs0, last, prev, ncalls, procs, pure>>

\* An iteration that saves its output (lines 395-432) and then tags it, under
\* any faults that can strike the tagging.  The output is counted (lines
\* 413-414) before write_processed_tags is called (line 416) and recorded after
\* it (line 432); no handler is around the call, so when it raises,
\* process_folder raises: the output is saved and counted, not recorded.
WriteOutput(req, fault, sfault) ==
    /\ batch.pc = "loop"
    /\ batch.idx <= batch.n
    /\ \E path \in {batch.files[batch.idx]} :
       \E norm \in {Normalized(fs, path)} :
       \E rb \in {IF norm.raised
                  THEN [path |-> None, raised |-> FALSE, reason |-> <<>>, fs |-> fs]
                  ELSE removebg_via_requests(norm.fs, norm.path, TempDir, BadDir, req,
                                             "none")} :
       \E out_path \in {OutPath(path, batch.out_ext)} :
       \E saved \in {WriteFile(rb.fs, out_path, SavedImage(batch.out_ext))} :
         /\ rb.path # None
         /\ ~NameTooLong(out_path)
         /\ TagsFaultStrikes(saved, out_path, batch.xmp_tool, Some(Today),
                             batch.embed_png_xmp, fault)
         /\ \E r \in {write_processed_tags(saved, out_path, batch.xmp_tool, Some(Today),
                                           batch.embed_png_xmp,
                                           batch.also_write_xmp_sidecar, fault, sfault)} :
              /\ SidecarFaultStrikes(saved, out_path, r, sfault)
              /\ fs' = r.fs
              /\ last' = [NoCall EXCEPT !.op = "tags", !.path = out_path,
                                        !.tool = batch.xmp_tool, !.date = Some(Today),
                                        !.embed = batch.embed_png_xmp,
                                        !.sidecar = batch.also_write_xmp_sidecar,
                                        !.fault = fault, !.sfault = sfault,
                                        !.stage = IF r.embedded THEN "embed" ELSE "skipped",
                                        !.scalled = r.scalled, !.swrote = r.swrote,
                                        !.sresult = r.sresult, !.result = r.result,
                                        !.raised = r.raised]
              /\ \E counted \in {[batch EXCEPT
                                    !.processed = batch.processed + 1,
                                    !.written = Append(batch.written,
                                        [path |-> out_path, fault |-> fault,
                                         sfault |-> sfault])]} :
                   batch' = IF r.raised THEN [counted EXCEPT !.pc = "raised"]
                            ELSE [counted EXCEPT
                                    !.idx = batch.idx + 1,
                                    !.processed_files = Append(batch.processed_files,
                                        [src |-> Name(path), dest |-> Name(out_path)])]
    /\ pre' = fs
    /\ prev' = last
    /\ UNCHANGED <<fs0, ncalls, procs, pure>>

\* The loop is over: return ProcessResult(...) (lines 437-444).
Return ==
    /\ batch.pc = "loop"
    /\ batch.idx > batch.n
    /\ batch' = [batch EXCEPT !.pc = "done"]
    /\ UNCHANGED <<fs, fs0, pre, last, prev, ncalls, procs, pure>>

NextBatch ==
    \/ \E step \in CaughtFailures, text \in ErrorTexts \cup {SaveFormatError},
          bfault \in BadFaults :
         SkipFile(step, text, bfault)
    \/ \E req \in Requests, bfault \in BadFaults : RemoveBgFails(req, bfault)
    \/ \E req \in {q \in Requests : q.status = 200}, fault \in Faults,
          sfault \in SidecarFaults : WriteOutput(req, fault, sfault)
    \/ Return

SpecBatch == InitBatch /\ [][NextBatch]_vars

---------------------------------------------------------------------------
(* write_processed_xmp_embed_png step by step: invocations that run at the *)
(* same time on different targets, each a read (lines 269-305), the        *)
(* opening and the writing of the temporary file (line 309), the rename    *)
(* (line 310) and, after a failure, the clean-up (lines 313-317).          *)

\* How many invocations run at the same time.
MaxProcs == 2

\* The target of the k-th invocation.
\* "a.png", "c.png", "d.png", "e.png"
ConcPath(k) == <<<<97, 46, 112, 110, 103>>, <<99, 46, 112, 110, 103>>, <<100, 46, 112, 110, 103>>, <<101, 46, 112, 110, 103>>>>[k]

\* What a target holds at the start: a PNG without or with a packet, or a
\* truncated PNG.
ConcFiles == {PngMinimal, PngWith("fresh"), <<Sig, ChIHDR>>}
ConcTools == {ToolA, ToolB}

\* An invocation that has not started: its arguments, and what it gets to know.
Proc(path, tool, date) ==
    [pc |-> "start", path |-> path, tool |-> tool, date |-> date, new_data |-> <<>>,
     fault |-> "none", result |-> FALSE]

ConcInitialFs(files) == [p \in {ConcPath(k) : k \in 1..MaxProcs} |-> BuildFile(files[CHOOSE k \in 1..MaxProcs : ConcPath(k) = p])]

InitConc ==
    /\ \E files \in [1..MaxProcs -> ConcFiles], tools \in [1..MaxProcs -> ConcTools] :
         /\ fs = ConcInitialFs(files)
         /\ procs = [k \in 1..MaxProcs |-> Proc(ConcPath(k), tools[k], Some(Date1))]
    /\ fs0 = fs
    /\ pre = fs
    /\ last = NoCall
    /\ prev = NoCall
    /\ ncalls = 0
    /\ batch = NoBatch
    /\ pure = NoPure

\* Lines 263-305: the suffix test, the read, the scan; the new buffer is ready,
\* or the invocation returns False.
ReadStep(i, ok) ==
    /\ procs[i].pc = "start"
    /\ \E plan \in {EmbedPlan(fs, procs[i].path, procs[i].tool, procs[i].date)} :
         /\ ~ok => plan.stage \in {"scan", "write"}
         /\ procs' = [procs EXCEPT ![i] =
                IF ok /\ plan.stage = "write"
                THEN [@ EXCEPT !.pc = "open", !.new_data = plan.new_data]
                ELSE [@ EXCEPT !.pc = "done", !.result = FALSE,
                               !.fault = IF ok THEN "none" ELSE "read"]]
    /\ pre' = fs
    /\ UNCHANGED <<fs, fs0, last, prev, ncalls, batch, pure>>

\* Line 309, tmp.write_bytes: the temporary file is created, or emptied.
OpenTmp(i, ok) ==
    /\ procs[i].pc = "open"
    /\ fs' = IF ok THEN WriteFile(fs, TmpPath(procs[i].path), <<>>) ELSE fs
    /\ procs' = [procs EXCEPT ![i] = IF ok THEN [@ EXCEPT !.pc = "write"]
                                     ELSE [@ EXCEPT !.pc = "cleanup", !.fault = "write_open"]]
    /\ pre' = fs
    /\ UNCHANGED <<fs0, last, prev, ncalls, batch, pure>>

\* Line 309, tmp.write_bytes: the buffer is written, whole or, on a failure, in part.
WriteTmp(i, ok) ==
    /\ procs[i].pc = "write"
    /\ fs' = WriteFile(fs, TmpPath(procs[i].path),
                       IF ok THEN procs[i].new_data
                       ELSE Slice(procs[i].new_data, 0, Len(procs[i].new_data) \div 2))
    /\ procs' = [procs EXCEPT ![i] = IF ok THEN [@ EXCEPT !.pc = "rename"]
                                     ELSE [@ EXCEPT !.pc = "cleanup", !.fault = "write_partial"]]
    /\ pre' = fs
    /\ UNCHANGED <<fs0, last, prev, ncalls, batch, pure>>

\* Line 310, tmp.replace(p): the temporary file becomes the target.
Rename(i, ok) ==
    /\ procs[i].pc = "rename"
    /\ ok => Exists(fs, TmpPath(procs[i].path))
    /\ fs' = IF ok THEN ReplaceFile(fs, TmpPath(procs[i].path), procs[i].path) ELSE fs
    /\ procs' = [procs EXCEPT ![i] = IF ok THEN [@ EXCEPT !.pc = "done", !.result = TRUE]
                                     ELSE [@ EXCEPT !.pc = "cleanup", !.fault = "rename"]]
    /\ pre' = fs
    /\ UNCHANGED <<fs0, last, prev, ncalls, batch, pure>>

\* Lines 312-318: the temporary file is removed if it exists, or the removal
\* fails and the file stays; False is returned.
Cleanup(i, ok) ==
    /\ procs[i].pc = "cleanup"
    /\ ~ok => Exists(fs, TmpPath(procs[i].path))
    /\ fs' = IF ok /\ Exists(fs, TmpPath(procs[i].path))
             THEN RemoveFile(fs, TmpPath(procs[i].path)) ELSE fs
    /\ procs' = [procs EXCEPT ![i] =
            [@ EXCEPT !.pc = "done", !.result = FALSE,
                      !.fault = IF ok THEN @ ELSE WithUnlinkFault(@)]]
    /\ pre' = fs
    /\ UNCHANGED <<fs0, last, prev, ncalls, batch, pure>>

\* The process is killed between two steps on the file system.
Crash(i) ==
    /\ procs[i].pc \in {"open", "write", "rename", "cleanup"}
    /\ procs' = [procs EXCEPT ![i] = [@ EXCEPT !.pc = "crashed"]]
    /\ pre' = fs
    /\ UNCHANGED <<fs, fs0, last, prev, ncalls, batch, pure>>

NextConc ==
    \E i \in 1..MaxProcs :
        \/ \E ok \in BOOLEAN : ReadStep(i, ok)
        \/ \E ok \in BOOLEAN : OpenTmp(i, ok)
        \/ \E ok \in BOOLEAN : WriteTmp(i, ok)
        \/ \E ok \in BOOLEAN : Rename(i, ok)
        \/ \E ok \in BOOLEAN : Cleanup(i, ok)
        \/ Crash(i)

SpecConc == InitConc /\ [][NextConc]_vars

---------------------------------------------------------------------------
(* The functions of the chunk layer and of the packet model, applied on     *)
(* their own to inputs drawn from bounded sets.                            *)

\* The longest sequence of parts after the first eight bytes of a buffer, the
\* longest text in units, the longest payload and packet in bytes.
MaxChunks == 3
MaxUnits == 4
MaxPayload == 3

\* The sequences of at most n members of a set.
SeqsUpTo(S, n) == UNION {[1..k -> S] : k \in 0..n}

\* A chunk as the scanner reads it: it looks at the length and the type only, so
\* the four bytes of the CRC are left zero.
RawChunk(ctype, payload) == PackU32(Len(payload)) \o ctype \o payload \o <<0, 0, 0, 0>>

\* How a buffer may begin: the signature, nothing, the signature cut short, eight
\* other bytes.
ScanPrefixes ==
    {_PNG_SIG, <<>>, SubSeq(_PNG_SIG, 1, 7), <<255, 216, 255, 224, 0, 16, 74, 70>>}

\* What may follow: chunks (IEND among them), a chunk whose declared length (100,
\* or 2^32 - 1) overruns the buffer, three stray bytes, a chunk header of length
\* 0 with no CRC after it.
ScanParts ==
    {RawChunk(T_IHDR, <<1>>), RawChunk(T_IDAT, <<>>), RawChunk(T_IEND, <<>>),
     <<0, 0, 0, 100>> \o T_IDAT \o <<1, 2, 3>>,
     <<255, 255, 255, 255>> \o T_IDAT,
     <<0, 0, 0>>,
     <<0, 0, 0, 0>> \o T_IDAT}

ScanBuffers == {prefix \o Concat(parts) : prefix \in ScanPrefixes, parts \in SeqsUpTo(ScanParts, MaxChunks)}

\* The units of the texts handed to the parser: the declaration, the tags of
\* x:xmpmeta and of a wrapper element, a letter, a carriage return, a control
\* character that XML forbids, a byte that is not valid UTF-8.
XmlUnits ==
    {Tok.decl, OpenTok("x:xmpmeta"), CloseTok("x:xmpmeta"), OpenTok("wrapper"),
     CloseTok("wrapper"), 100, 13, 1, Tok.bad}

\* Optional[bytes]: None, every text of at most MaxUnits units, the named packets.
ParseInputs ==
    {None} \cup {Some(t) : t \in SeqsUpTo(XmlUnits, MaxUnits)}
           \cup {Some(Packet(name)) : name \in PacketNames \cup {"tagged"}}

ChunkTypes == {T_iTXt, T_IEND, T_IDAT, T_tEXt}
Payloads == SeqsUpTo({0, 1, 255}, MaxPayload)

\* The packets handed to the builder: short byte strings, NUL among their bytes,
\* and the named packets.
BuildPackets ==
    SeqsUpTo({0, 60, 255}, MaxPayload) \cup {Packet(name) : name \in PacketNames}

\* What stands between IHDR and the chunk in the file it is put in: nothing, an
\* iTXt chunk with another keyword, an XMP-keyword iTXt chunk cut short.
Leads == {<<>>, <<ChOtherItxt>>, <<ChShortXmp>>}

InitPure ==
    /\ fs = <<>>
    /\ fs0 = fs
    /\ pre = fs
    /\ last = NoCall
    /\ prev = NoCall
    /\ ncalls = 0
    /\ batch = NoBatch
    /\ procs = NoProcs
    /\ pure = NoPure

\* list(_iter_png_chunks(data))
IterChunks(data) ==
    /\ pure.op = "none"
    /\ pure' = [op |-> "iter", data |-> data, chunks |-> _iter_png_chunks(data)]
    /\ UNCHANGED <<fs, fs0, pre, last, prev, ncalls, batch, procs>>

\* _parse_or_create_xmpmeta_root(xmp_xml_bytes)
ParseOrCreate(xmp_xml_bytes) ==
    /\ pure.op = "none"
    /\ pure' = [op |-> "parse", input |-> xmp_xml_bytes,
                root |-> _parse_or_create_xmpmeta_root(xmp_xml_bytes)]
    /\ UNCHANGED <<fs, fs0, pre, last, prev, ncalls, batch, procs>>

\* _build_png_chunk(chunk_type, payload)
BuildChunk(chunk_type, payload) ==
    /\ pure.op = "none"
    /\ pure' = [op |-> "build", chunk_type |-> chunk_type, payload |-> payload,
                chunk |-> _build_png_chunk(chunk_type, payload)]
    /\ UNCHANGED <<fs, fs0, pre, last, prev, ncalls, batch, procs>>

\* _build_png_itxt_xmp_chunk(xmp_packet), and _extract_png_itxt_xmp_packet on a
\* file that holds the chunk between IHDR (and the lead) and IDAT.
BuildXmpChunk(xmp_packet, lead) ==
    /\ pure.op = "none"
    /\ \E chunk \in {_build_png_itxt_xmp_chunk(xmp_packet)} :
       \E file \in {BuildFile(<<Sig, ChIHDR>> \o lead \o <<Raw(chunk), ChIDAT, ChIEND>>)} :
         pure' = [op |-> "build_xmp", xmp_packet |-> xmp_packet, chunk |-> chunk,
                  file |-> file, extracted |-> _extract_png_itxt_xmp_packet(file)]
    /\ UNCHANGED <<fs, fs0, pre, last, prev, ncalls, batch, procs>>

NextPure ==
    \/ \E data \in ScanBuffers : IterChunks(data)
    \/ \E xmp_xml_bytes \in ParseInputs : ParseOrCreate(xmp_xml_bytes)
    \/ \E chunk_type \in ChunkTypes, payload \in Payloads : BuildChunk(chunk_type, payload)
    \/ \E xmp_packet \in BuildPackets, lead \in Leads : BuildXmpChunk(xmp_packet, lead)

SpecPure == InitPure /\ [][NextPure]_vars

---------------------------------------------------------------------------
(* What the properties observe of a file and of a packet                   *)

\* The chunks of the walk that are iTXt chunks with the keyword XML:com.adobe.xmp.
XmpChunkIndexes(data) ==
    LET chunks == _iter_png_chunks(data)
    IN  {k \in 1..Len(chunks) : IsXmpItxt(data, chunks[k])}
NumXmpChunks(data) == Cardinality(XmpChunkIndexes(data))

\* The signature, then contiguous chunks, the walk reaching IEND exactly at the
\* end of the file: each declared length is the span of its payload.
WellFormedPng(data) ==
    LET chunks == _iter_png_chunks(data)
    IN  /\ StartsWith(data, _PNG_SIG)
        /\ Len(chunks) >= 1
        /\ chunks[1].chunk_start = Len(_PNG_SIG)
        /\ \A k \in 1..Len(chunks) :
              /\ chunks[k].data_start = chunks[k].chunk_start + 8
              /\ chunks[k].data_end
                    = chunks[k].data_start
                      + UnpackU32(Slice(data, chunks[k].chunk_start, chunks[k].chunk_start + 4))
              /\ chunks[k].chunk_end = chunks[k].data_end + 4
              /\ k > 1 => chunks[k].chunk_start = chunks[k - 1].chunk_end
        /\ chunks[Len(chunks)].ctype = T_IEND
        /\ chunks[Len(chunks)].chunk_end = Len(data)
        /\ Slice(data, Len(data) - 12, Len(data)) = _build_png_chunk(T_IEND, <<>>)

\* The rdf:li elements of a packet that lie in an `inner` element inside an
\* `outer` element; none when the packet is no well-formed XML.
LisUnder(packet, outer, inner) ==
    IF packet = None \/ packet = Some(<<>>) THEN {}
    ELSE LET parsed == XmlFromString(_decode_xml_bytes(packet[1])[1])
             paths  == IF parsed.ok THEN IterPaths(parsed.el) ELSE <<>>
             At(q)  == GetAt(parsed.el, q)
         IN  {At(paths[k]) : k \in
                {j \in 1..Len(paths) :
                    /\ Len(paths[j]) >= 2
                    /\ At(paths[j]).tag = "rdf:li"
                    /\ At(SubSeq(paths[j], 1, Len(paths[j]) - 1)).tag = inner
                    /\ At(SubSeq(paths[j], 1, Len(paths[j]) - 2)).tag = outer}}

\* The entries of dc:subject's Bag, and the texts of dc:description's x-default
\* entries.
SubjectKeywords(packet) == {li.text : li \in LisUnder(packet, "dc:subject", "rdf:Bag")}
XDefaultTexts(packet) ==
    {li.text : li \in {e \in LisUnder(packet, "dc:description", "rdf:Alt") :
                          LangOf(e) = X_DEFAULT}}

\* The packet extracted from the file at path p, if the file exists.
PacketAt(fsys, p) ==
    IF Exists(fsys, p) THEN _extract_png_itxt_xmp_packet(fsys[p]) ELSE None

\* The last call was a successful embed, and so was the call before it, on the
\* same file.
TwoEmbeds ==
    /\ last.op = "embed" /\ last.result
    /\ prev.op = "embed" /\ prev.result
    /\ last.path = prev.path

---------------------------------------------------------------------------
(* Properties                                                              *)

\* C1: a second successful embed with the same tool and date as the first leaves
\* the extracted packet byte-identical to what it was after the first.
C1_SecondEmbedSamePacket ==
    (TwoEmbeds /\ last.tool = prev.tool /\ last.date = prev.date)
        => PacketAt(fs, last.path) = PacketAt(pre, last.path)

\* C2 as stated: when the write of the temporary file or the rename fails, the
\* call returns False, the target holds its bytes of before the call, and no
\* temporary file is left.
C2_WriteFailureAtomic ==
    (last.op = "embed" /\ last.fault \in WriteFaults)
        => /\ ~last.result
           /\ Exists(fs, last.path) /\ fs[last.path] = pre[last.path]
           /\ ~Exists(fs, TmpPath(last.path))
           /\ \A q \in DOMAIN pre \ {TmpPath(last.path)} : Exists(fs, q) /\ fs[q] = pre[q]

\* C2: when the write of the temporary file or the rename fails, the call
\* returns False, the target and every other file hold their bytes of before
\* the call, and the temporary file is gone unless its removal failed as well;
\* then it stays, with what the failed write left in it.
C2_AtomicUnlessUnlinkFails ==
    (last.op = "embed" /\ last.fault \in WriteFaults)
        => /\ ~last.result
           /\ Exists(fs, last.path) /\ fs[last.path] = pre[last.path]
           /\ \A q \in DOMAIN pre \ {TmpPath(last.path)} : Exists(fs, q) /\ fs[q] = pre[q]
           /\ DOMAIN fs \subseteq DOMAIN pre \cup {TmpPath(last.path)}
           /\ (last.fault \notin UnlinkFaults) => ~Exists(fs, TmpPath(last.path))
           /\ (last.fault \in UnlinkFaults)
                => /\ Exists(fs, TmpPath(last.path))
                   /\ fs[TmpPath(last.path)] =
                        FailedWrite(pre, TmpPath(last.path),
                            EmbedPlan(pre, last.path, last.tool, last.date).new_data,
                            last.fault)[TmpPath(last.path)]
\* The rename fails after a call whose write failed part way and whose removal
\* failed: the second call removes the file the first one left.
C2_Witness ==
    /\ last.op = "embed" /\ last.fault = "rename" /\ last.path = PngPath
    /\ NumXmpChunks(pre[last.path]) = 1
    /\ prev.op = "embed" /\ prev.fault = "write_partial_unlink" /\ prev.path = PngPath
    /\ Exists(pre, TmpPath(last.path))
    /\ ~Exists(fs, TmpPath(last.path))

\* C3: a successful embed into a well-formed PNG leaves a well-formed PNG: the
\* signature first, the IEND chunk last, every declared length the span of its
\* payload; so when a chunk is inserted and so when one is replaced.
C3_ChunkIntegrity ==
    (last.op = "embed" /\ last.result /\ WellFormedPng(pre[last.path]))
        => WellFormedPng(fs[last.path])
C3_Witness ==
    /\ TwoEmbeds
    /\ WellFormedPng(fs0[last.path]) /\ NumXmpChunks(fs0[last.path]) = 0
    /\ Len(fs[last.path]) > Len(pre[last.path])
    /\ Len(pre[last.path]) > Len(fs0[last.path])

\* One keyword is in the Bag when an entry equals it up to surrounding white space.
InSubject(packet, keyword) ==
    \E k \in SubjectKeywords(packet) : Strip(k) = Strip(keyword)

\* C4: after an embed with tool A and then one with another tool B into the same
\* file, the packet's Bag holds both keywords and its x-default description is
\* the second call's text only.
C4_RoundTripAccumulates ==
    (TwoEmbeds /\ last.tool # prev.tool)
        => /\ InSubject(PacketAt(fs, last.path), KeywordFor(prev.tool))
           /\ InSubject(PacketAt(fs, last.path), KeywordFor(last.tool))
           /\ XDefaultTexts(PacketAt(fs, last.path))
                = {DescTextFor(last.tool, EffectiveDate(last.date))}

\* a.png was, at the start, a well-formed PNG with no XMP chunk.
StartedWithoutXmp ==
    /\ Exists(fs0, PngPath)
    /\ WellFormedPng(fs0[PngPath])
    /\ NumXmpChunks(fs0[PngPath]) = 0

\* The chunk of the walk that is the XMP chunk ends where the IEND chunk starts.
XmpChunkJustBeforeIend(data) ==
    LET chunks == _iter_png_chunks(data)
    IN  \A k \in XmpChunkIndexes(data) :
          /\ k + 1 = Len(chunks)
          /\ chunks[k + 1].ctype = T_IEND
          /\ chunks[k].chunk_end = chunks[k + 1].chunk_start

\* C5: the first successful embed into a well-formed PNG without an XMP chunk
\* leaves exactly one XMP chunk, right before IEND, whose packet has the call's
\* keyword in dc:subject and the call's text as x-default description; and after
\* every later successful embed the file still has exactly one XMP chunk.
C5_ExactlyOneXmpChunk ==
    StartedWithoutXmp =>
        /\ (last.op = "embed" /\ last.result /\ last.path = PngPath
                /\ pre[PngPath] = fs0[PngPath])
             => /\ NumXmpChunks(fs[PngPath]) = 1
                /\ XmpChunkJustBeforeIend(fs[PngPath])
                /\ KeywordFor(last.tool) \in SubjectKeywords(PacketAt(fs, PngPath))
                /\ XDefaultTexts(PacketAt(fs, PngPath))
                     = {DescTextFor(last.tool, EffectiveDate(last.date))}
        /\ (fs[PngPath] # fs0[PngPath]) => NumXmpChunks(fs[PngPath]) = 1
C5_Witness ==
    /\ StartedWithoutXmp
    /\ TwoEmbeds /\ last.path = PngPath
    /\ last.tool # prev.tool /\ last.date # prev.date
    /\ NumXmpChunks(fs[PngPath]) = 1

\* C6: a call on a path whose suffix is not .png returns False at the suffix
\* test, before any read, and changes no file.
C6_NonPngNoOp ==
    (last.op = "embed" /\ Lower(Suffix(last.path)) # DotPng)
        => /\ ~last.result
           /\ last.stage = "suffix"
           /\ fs = pre
C6_Witness ==
    /\ last.op = "embed" /\ last.path = JpgPath
    /\ Exists(pre, JpgPath) /\ WellFormedPng(pre[JpgPath])

\* The bytes are what the call fails on: no signature, or the scan finds neither
\* an XMP chunk nor IEND.
Malformed(data) ==
    \/ ~StartsWith(data, _PNG_SIG)
    \/ \A k \in 1..Len(_iter_png_chunks(data)) :
         /\ ~IsXmpItxt(data, _iter_png_chunks(data)[k])
         /\ _iter_png_chunks(data)[k].ctype # T_IEND

\* C7: a call on a file without the signature, or in which the scan finds
\* neither an XMP chunk nor IEND, returns False and changes no file: the target
\* keeps its bytes and no temporary file appears.
C7_MalformedFailsCleanly ==
    (last.op = "embed" /\ Exists(pre, last.path) /\ Malformed(pre[last.path]))
        => /\ ~last.result
           /\ fs = pre
C7_Witness ==
    /\ last.op = "embed" /\ last.path = PngPath /\ last.fault = "none"
    /\ Exists(pre, PngPath) /\ StartsWith(pre[PngPath], _PNG_SIG)
    /\ Len(_iter_png_chunks(pre[PngPath])) = 1
    /\ Malformed(pre[PngPath])
    /\ ~Exists(fs, TmpPath(PngPath))

\* Every input file is recorded exactly once, as processed or as unprocessed.
RecordedOnce(b) ==
    /\ b.processed + b.unprocessed = b.n
    /\ Len(b.processed_files) = b.processed
    /\ Len(b.unprocessed_files) = b.unprocessed
    /\ \A k \in 1..b.n :
         Cardinality({j \in 1..Len(b.processed_files) : b.processed_files[j].src = Name(b.files[k])})
         + Cardinality({j \in 1..Len(b.unprocessed_files) : b.unprocessed_files[j].src = Name(b.files[k])})
         = 1

\* C8: whatever happens to a file (any HTTP status among the outcomes),
\* process_folder goes on to the next file and returns a result in which every
\* input file is recorded exactly once; no exception ends the run.
C8_PerFileIsolation ==
    /\ batch.pc # "raised"
    /\ batch.pc = "done" => RecordedOnce(batch)

\* The state of the sidecar of image path p.
SidecarOf(fsys, p) ==
    IF Exists(fsys, _sidecar_path_for_image(p))
    THEN Some(fsys[_sidecar_path_for_image(p)]) ELSE None

\* C9: with also_write_sidecar false, write_processed_tags creates or modifies
\* no sidecar, and for a target that is no PNG it returns False.
C9_SidecarOnlyOnRequest ==
    (last.op = "tags" /\ ~last.sidecar)
        => /\ \A p \in {PngPath, JpgPath, MixedPath, LongPath} :
                SidecarOf(fs, p) = SidecarOf(pre, p)
           /\ (Lower(Suffix(last.path)) # DotPng) => ~last.result

\* C10: in a run of the command line tool that meets no fault, with --embed-xmp
\* every output written holds an XMP chunk whose packet has the keyword
\* ProcessedWith:removebg-square-cli, and with --no-embed-xmp none holds an XMP
\* chunk.
C10_CliEmbedsXmp ==
    (batch.pc # "idle" /\ batch.via_cli)
        => \A k \in 1..Len(batch.written) :
             (batch.written[k].fault = "none" /\ batch.written[k].sfault = "none")
                => IF batch.embed_png_xmp
                   THEN /\ NumXmpChunks(fs[batch.written[k].path]) >= 1
                        /\ KeywordFor(DEFAULT_PROCESS_TOOL)
                             \in SubjectKeywords(PacketAt(fs, batch.written[k].path))
                   ELSE NumXmpChunks(fs[batch.written[k].path]) = 0

\* The sidecar of the last call's image as the sidecar writer gets to see it, and
\* the packet the writer composes from it.
SidecarSeen ==
    IF Exists(pre, _sidecar_path_for_image(last.path)) /\ last.sfault # "read"
    THEN Some(pre[_sidecar_path_for_image(last.path)]) ELSE None
SidecarComposed ==
    _serialize_xmpmeta(UpdatedRoot(SidecarSeen, last.tool, EffectiveDate(last.date)).root)

HoldsTags(packet, tool, date) ==
    /\ \E k \in SubjectKeywords(packet) : Strip(k) = KeywordFor(tool)
    /\ XDefaultTexts(packet) = {DescTextFor(tool, date)}

---------------------------------------------------------------------------
(* Invocations that run at the same time                                   *)

\* What invocation i would do alone on the file system of the start, under the
\* fault it met.
Alone(i) ==
    write_processed_xmp_embed_png(fs0, procs[i].path, procs[i].tool, procs[i].date, procs[i].fault)

\* The buffer invocation i composes from the target of the start.
NewBufferOf(i) == EmbedPlan(fs0, procs[i].path, procs[i].tool, procs[i].date)

ProcIds == DOMAIN procs

\* C12: two invocations on two distinct .png targets do not interfere, however
\* their reads, writes of the temporary file and renames interleave: each has a
\* temporary path of its own, which holds its own bytes; an invocation that has
\* returned leaves its target with the bytes, and returns the value, it would
\* when run alone, and leaves its temporary file only where it would alone (its
\* removal failed); when all have returned, no other file has appeared.
C12_NoInterference ==
    /\ \A i, j \in ProcIds :
          i # j => /\ TmpPath(procs[i].path) # TmpPath(procs[j].path)
                   /\ TmpPath(procs[i].path) # procs[j].path
    /\ \A i \in ProcIds :
          /\ procs[i].pc = "rename"
                => /\ Exists(fs, TmpPath(procs[i].path))
                   /\ fs[TmpPath(procs[i].path)] = NewBufferOf(i).new_data
          /\ procs[i].pc = "done"
                => \A alone \in {Alone(i)}, tmp \in {TmpPath(procs[i].path)} :
                       /\ procs[i].result = alone.result
                       /\ fs[procs[i].path] = alone.fs[procs[i].path]
                       /\ Exists(fs, tmp) <=> Exists(alone.fs, tmp)
                       /\ Exists(fs, tmp) => fs[tmp] = alone.fs[tmp]
    /\ (\A i \in ProcIds : procs[i].pc = "done")
          => DOMAIN fs \subseteq DOMAIN fs0 \cup {TmpPath(procs[i].path) : i \in ProcIds}

\* One invocation has replaced its target while the other, with another tool,
\* holds its finished temporary file and has not renamed it yet.
C12_Witness ==
    /\ ProcIds = {1, 2}
    /\ procs[1].pc = "done" /\ procs[1].result /\ fs[procs[1].path] # fs0[procs[1].path]
    /\ procs[2].pc = "rename" /\ Exists(fs, TmpPath(procs[2].path))
    /\ procs[1].tool # procs[2].tool

\* In a state: the target holds the whole original or the whole new buffer, and
\* it holds something else than the original only once its invocation has
\* returned True.
C13_State ==
    \A i \in ProcIds :
        /\ Exists(fs, procs[i].path)
        /\ \/ fs[procs[i].path] = fs0[procs[i].path]
           \/ /\ NewBufferOf(i).stage = "write"
              /\ fs[procs[i].path] = NewBufferOf(i).new_data
        /\ fs[procs[i].path] # fs0[procs[i].path]
              => procs[i].pc = "done" /\ procs[i].result

\* In a step: a target changes only by the rename of its own temporary file,
\* which holds the whole new buffer.
C13_Step ==
    /\ \A q \in DOMAIN fs' :
          (q \notin DOMAIN fs \/ fs'[q] # fs[q])
            => \E i \in ProcIds : q \in {procs[i].path, TmpPath(procs[i].path)}
    /\ \A i \in ProcIds :
           (Exists(fs', procs[i].path) /\ fs'[procs[i].path] = fs[procs[i].path])
           \/ /\ procs[i].pc = "rename" /\ procs'[i].pc = "done"
              /\ Exists(fs, TmpPath(procs[i].path))
              /\ Exists(fs', procs[i].path)
              /\ fs'[procs[i].path] = fs[TmpPath(procs[i].path)]
              /\ fs'[procs[i].path] = NewBufferOf(i).new_data
              /\ ~Exists(fs', TmpPath(procs[i].path))

\* C13: in every intermediate state, a failure or a crash between any two
\* steps on the file system included, the target holds either the complete
\* original bytes or the complete new buffer; the new bytes are written only to
\* <target>.tmp and reach the target solely through the rename.
C13_TargetNeverPartial == []C13_State /\ [][C13_Step]_vars

\* An invocation was killed after a partial write of its temporary file: the
\* partial bytes are in <target>.tmp, the target is the original.
C13_Witness ==
    \E i \in ProcIds :
        /\ procs[i].pc = "crashed" /\ procs[i].fault = "write_partial"
        /\ Exists(fs, TmpPath(procs[i].path))
        /\ fs[TmpPath(procs[i].path)] # NewBufferOf(i).new_data
        /\ fs[procs[i].path] = fs0[procs[i].path]

---------------------------------------------------------------------------
(* The chunk the patcher replaces and the packet it reads                  *)

\* The chunk whose span the loop of lines 283-298 records for replacement.
ReplacedChunk(data) ==
    LET chunks == _iter_png_chunks(data)
    IN  chunks[CHOOSE k \in 1..Len(chunks) :
                 chunks[k].chunk_start = FindPatchPoint(data).replace[1][1]]

\* existing_xmp of line 277: what the call feeds to the packet model.
ExistingFed(data) == _extract_png_itxt_xmp_packet(data)

\* The last call composed a new buffer from the target it read.
Composed == last.op = "embed" /\ last.stage = "write"

\* C14: when the call replaces an existing iTXt chunk, the existing packet it
\* feeds to the packet model is the XML text of that same chunk, the first
\* iTXt chunk with the keyword XML:com.adobe.xmp; it feeds no existing packet
\* only when no such chunk is found before IEND.
C14_ExistingFromReplacedChunk ==
    Composed =>
        LET data == pre[last.path]
            at   == FindPatchPoint(data)
            fed  == ExistingFed(data)
        IN  /\ at.replace # None
                 => /\ fed # None
                    /\ fed = ExtractFromChunk(data, ReplacedChunk(data))
            /\ fed = None => at.replace = None

---------------------------------------------------------------------------
(* What the patcher leaves alone                                           *)

\* The span the claim names: that of the first iTXt chunk of the walk with the
\* keyword XML:com.adobe.xmp or, if there is none, the empty span at the start
\* of IEND.
ClaimedSpan(data) ==
    LET chunks == _iter_png_chunks(data)
        xs     == XmpChunkIndexes(data)
        first  == CHOOSE k \in xs : \A j \in xs : k <= j
        iend   == chunks[Len(chunks)].chunk_start
    IN  IF xs # {} THEN <<chunks[first].chunk_start, chunks[first].chunk_end>>
        ELSE <<iend, iend>>

\* Whether bytes are exactly one XMP iTXt chunk as the builder lays it out.
IsOneXmpChunk(bytes) ==
    LET packet == ExtractFromPayload(Slice(bytes, 8, Len(bytes) - 4))
    IN  /\ Len(bytes) >= 12
        /\ packet # None
        /\ bytes = _build_png_itxt_xmp_chunk(packet[1])

\* C15: the first match wins and everything else is preserved: the new buffer is
\* the original with exactly the span of the first XMP-keyword iTXt chunk before
\* IEND replaced by the new chunk or, if there is none, with the new chunk
\* inserted at the start of IEND; every byte outside that span, later
\* XMP-keyword chunks and bytes after IEND included, is unchanged and in order.
C15_FirstMatchRestPreserved ==
    (Composed /\ last.result) =>
        LET data == pre[last.path]
            new  == fs[last.path]
            span == ClaimedSpan(data)
            rest == Len(data) - span[2]
        IN  /\ Len(new) >= span[1] + rest
            /\ Slice(new, 0, span[1]) = Slice(data, 0, span[1])
            /\ Slice(new, Len(new) - rest, Len(new)) = Slice(data, span[2], Len(data))
            /\ IsOneXmpChunk(Slice(new, span[1], Len(new) - rest))

\* A call replaced the first XMP chunk of a file that holds a second one, which
\* is still there after it, byte for byte.
C15_Witness ==
    /\ Composed /\ last.result
    /\ NumXmpChunks(pre[last.path]) >= 2
    /\ NumXmpChunks(fs[last.path]) >= 2
    /\ fs[last.path] # pre[last.path]

---------------------------------------------------------------------------
(* How often a packet holds an entry                                       *)

\* The places of the rdf:li elements of a packet that lie in an `inner` element
\* inside an `outer` element, as [el: the parsed packet, at: the set of paths].
LiPlaces(packet, outer, inner) ==
    IF packet = None \/ packet = Some(<<>>) THEN [el |-> Element("x:xmpmeta"), at |-> {}]
    ELSE LET parsed == XmlFromString(_decode_xml_bytes(packet[1])[1])
             paths  == IF parsed.ok THEN IterPaths(parsed.el) ELSE <<>>
             At(q)  == GetAt(parsed.el, q)
         IN  [el |-> IF parsed.ok THEN parsed.el ELSE Element("x:xmpmeta"),
              at |-> {paths[j] : j \in
                        {j \in 1..Len(paths) :
                            /\ Len(paths[j]) >= 2
                            /\ At(paths[j]).tag = "rdf:li"
                            /\ At(SubSeq(paths[j], 1, Len(paths[j]) - 1)).tag = inner
                            /\ At(SubSeq(paths[j], 1, Len(paths[j]) - 2)).tag = outer}}]

\* How many entries of dc:subject's Bag equal the keyword after trimming.
KeywordCount(packet, keyword) ==
    LET places == LiPlaces(packet, "dc:subject", "rdf:Bag")
    IN  Cardinality({q \in places.at : Strip(GetAt(places.el, q).text) = Strip(keyword)})

\* C16: keyword uniqueness: when the packet a call reads holds the keyword
\* ProcessedWith:<tool> at most once in dc:subject's Bag, the packet the call
\* writes holds it exactly once, for any tool; equality is by value after
\* trimming, so no call appends a second entry equal to an existing one.
C16_KeywordExactlyOnce ==
    (Composed /\ last.result
       /\ KeywordCount(PacketAt(pre, last.path), KeywordFor(last.tool)) <= 1)
        => KeywordCount(PacketAt(fs, last.path), KeywordFor(last.tool)) = 1

---------------------------------------------------------------------------
(* The default-language description                                        *)

\* The places of the entries of dc:description's Alt tagged x-default (as the
\* source reads the tag: trimmed, in lower case), and the other entries.
XDefaultPlaces(packet) ==
    LET places == LiPlaces(packet, "dc:description", "rdf:Alt")
    IN  {q \in places.at : LangOf(GetAt(places.el, q)) = X_DEFAULT}
OtherLanguages(packet) ==
    {li \in LisUnder(packet, "dc:description", "rdf:Alt") : LangOf(li) # X_DEFAULT}

\* The two updates of the last call, on the Description of the packet it read:
\* [before: the Description handed to _ensure_dc_description_xdefault,
\*  after: the Description it leaves, changed: the bool it returns].
DescriptionUpdate ==
    LET root == _parse_or_create_xmpmeta_root(PacketAt(pre, last.path))
        g    == _get_or_create_rdf_description(root)
        r1   == _ensure_dc_subject_keyword(GetAt(g.root, g.path), KeywordFor(last.tool))
        r2   == _ensure_dc_description_xdefault(
                    r1.el, DescTextFor(last.tool, EffectiveDate(last.date)))
    IN  [before |-> r1.el, after |-> r2.el, changed |-> r2.changed]

\* C17: single default-language description: when the packet a call reads has at
\* most one x-default entry, the packet it writes has exactly one rdf:li tagged
\* x-default in dc:description's Alt, with the description of this call as its
\* text; the entries for other languages are as they were; and
\* _ensure_dc_description_xdefault reports a mutation exactly when it created
\* structure or changed that entry's text.
C17_SingleXDefault ==
    (Composed /\ last.result /\ Cardinality(XDefaultPlaces(PacketAt(pre, last.path))) <= 1)
        => /\ Cardinality(XDefaultPlaces(PacketAt(fs, last.path))) = 1
           /\ XDefaultTexts(PacketAt(fs, last.path))
                 = {DescTextFor(last.tool, EffectiveDate(last.date))}
           /\ OtherLanguages(PacketAt(fs, last.path)) = OtherLanguages(PacketAt(pre, last.path))
           /\ DescriptionUpdate.changed <=> (DescriptionUpdate.after # DescriptionUpdate.before)

---------------------------------------------------------------------------
(* The chunk scanner                                                       *)

\* The length a chunk header at offset `at` declares, read byte by byte.
DeclaredLength(data, at) ==
    data[at + 1] * 16777216 + data[at + 2] * 65536 + data[at + 3] * 256 + data[at + 4]

\* No whole chunk starts at offset `at`: fewer than eight bytes are left, or the
\* declared payload and the CRC do not fit in the buffer (which is far shorter
\* than 2^16 bytes).
Overruns(data, at) ==
    \/ at + 8 > Len(data)
    \/ data[at + 1] > 0 \/ data[at + 2] > 0
    \/ at + 8 + (data[at + 3] * 256 + data[at + 4]) + 4 > Len(data)

\* C18: the scanner's contract: nothing for a buffer that does not begin with
\* the signature; otherwise descriptors in file order, the first at offset 8 and
\* each where the one before ended, with data_start = chunk_start + 8, data_end
\* = data_start + declared length, chunk_end = data_end + 4 <= length of the
\* buffer; none after the first IEND; and the sequence ends, without an error,
\* at the first chunk that overruns the buffer.
C18_ScannerContract ==
    pure.op = "iter" =>
        LET data   == pure.data
            chunks == pure.chunks
            n      == Len(chunks)
            stop   == IF n = 0 THEN 8 ELSE chunks[n].chunk_end
        IN  IF SubSeq(data, 1, Min(8, Len(data))) # <<137, 80, 78, 71, 13, 10, 26, 10>>
            THEN chunks = <<>>
            ELSE /\ \A k \in 1..n :
                      /\ chunks[k].chunk_start = IF k = 1 THEN 8 ELSE chunks[k - 1].chunk_end
                      /\ chunks[k].ctype = SubSeq(data, chunks[k].chunk_start + 5,
                                                  chunks[k].chunk_start + 8)
                      /\ chunks[k].data_start = chunks[k].chunk_start + 8
                      /\ chunks[k].data_end
                           = chunks[k].data_start + DeclaredLength(data, chunks[k].chunk_start)
                      /\ chunks[k].chunk_end = chunks[k].data_end + 4
                      /\ chunks[k].chunk_end <= Len(data)
                      /\ k < n => chunks[k].ctype # <<73, 69, 78, 68>>
                 /\ (n = 0 \/ chunks[n].ctype # <<73, 69, 78, 68>>) => Overruns(data, stop)

\* The scan of a buffer with the signature yielded chunks up to an IEND that is
\* followed by further bytes, which it did not yield.
C18_Witness ==
    /\ pure.op = "iter"
    /\ Len(pure.chunks) >= 2
    /\ pure.chunks[Len(pure.chunks)].ctype = T_IEND
    /\ pure.chunks[Len(pure.chunks)].chunk_end + 12 <= Len(pure.data)

---------------------------------------------------------------------------
(* Parse or create                                                         *)

\* The elements of the input that are xmpmeta elements, as the paths to them in
\* the parsed document; none when the input is None, empty or not well formed.
XmpmetaPaths(input) ==
    IF input = None \/ input = Some(<<>>) THEN {}
    ELSE LET txt    == [i \in 1..Len(input[1]) |->
                          IF input[1][i] = 255 THEN 253 ELSE input[1][i]]
             parsed == XmlFromString(txt)
             paths  == IF parsed.ok THEN IterPaths(parsed.el) ELSE <<>>
         IN  {paths[k] : k \in {j \in 1..Len(paths) :
                                   GetAt(parsed.el, paths[j]).tag = "x:xmpmeta"}}
ParsedInput(input) ==
    XmlFromString([i \in 1..Len(input[1]) |-> IF input[1][i] = 255 THEN 253 ELSE input[1][i]]).el

\* xmpmeta > RDF > Description, the Description empty.
FreshMinimalPacket ==
    [tag |-> "x:xmpmeta", lang |-> <<>>, text |-> <<>>, tail |-> <<>>, kids |->
       <<[tag |-> "rdf:RDF", lang |-> <<>>, text |-> <<>>, tail |-> <<>>, kids |->
            <<[tag |-> "rdf:Description", lang |-> <<>>, text |-> <<>>, tail |-> <<>>,
               kids |-> <<>>]>>]>>]

\* C19: parse-or-create never fails outward: for every input it returns a
\* document root; when the input yields no xmpmeta element (None, empty bytes,
\* text that is not well-formed XML, XML with no xmpmeta) the root is the fresh
\* minimal packet; when the input's root or a descendant is an xmpmeta element,
\* that element, with its content, is the result.
C19_ParseOrCreate ==
    pure.op = "parse" =>
        LET metas == XmpmetaPaths(pure.input)
        IN  /\ pure.root.tag = "x:xmpmeta"
            /\ metas = {} => pure.root = FreshMinimalPacket
            /\ metas # {} =>
                 /\ pure.root \in {GetAt(ParsedInput(pure.input), q) : q \in metas}
                 /\ <<>> \in metas => pure.root = ParsedInput(pure.input)

\* The input is a document whose root is another element and which holds an
\* xmpmeta element with content: that element was returned.
C19_Witness ==
    /\ pure.op = "parse"
    /\ XmpmetaPaths(pure.input) # {}
    /\ <<>> \notin XmpmetaPaths(pure.input)
    /\ pure.root.kids # <<>>
    /\ pure.root # FreshMinimalPacket

---------------------------------------------------------------------------
(* The chunk builder                                                       *)

\* One shift step of the CRC register <<high 16, low 16>> with the reflected
\* polynomial 0xEDB88320.
CrcShift(c) ==
    LET hi == c[1] \div 2
        lo == (c[2] \div 2) + 32768 * (c[1] % 2)
    IN  IF c[2] % 2 = 1 THEN <<Xor16(hi, 60856), Xor16(lo, 33568)>> ELSE <<hi, lo>>

\* The register after one byte: the byte is added to the low bits, then eight
\* shift steps.
CrcByte(c, b) ==
    CrcShift(CrcShift(CrcShift(CrcShift(CrcShift(CrcShift(CrcShift(CrcShift(
        <<c[1], Xor16(c[2], b)>>))))))))

\* The register after the bytes s[lo..hi], from register c (a pair of naturals,
\* looked at first so that it is computed before the bytes are taken up).
RECURSIVE CrcBits(_, _, _, _)
CrcBits(s, c, lo, hi) ==
    IF c[1] < 0 \/ lo > hi THEN c
    ELSE IF lo = hi THEN CrcByte(c, s[lo])
    ELSE CrcBits(s, CrcBits(s, c, lo, (lo + hi) \div 2), ((lo + hi) \div 2) + 1, hi)

\* CRC-32 bit by bit, as its four big-endian bytes.
Crc32Reference(s) ==
    LET r == CrcBits(s, <<65535, 65535>>, 1, Len(s))
    IN  <<(65535 - r[1]) \div 256, (65535 - r[1]) % 256,
          (65535 - r[2]) \div 256, (65535 - r[2]) % 256>>

\* chunk is length || type || payload || crc for that type and payload.
HasLayout(chunk, ctype, payload) ==
    /\ Len(chunk) = Len(payload) + 12
    /\ \A i \in 1..4 : chunk[i] \in 0..255
    /\ chunk[1] * 16777216 + chunk[2] * 65536 + chunk[3] * 256 + chunk[4] = Len(payload)
    /\ SubSeq(chunk, 5, 8) = ctype
    /\ SubSeq(chunk, 9, 8 + Len(payload)) = payload
    /\ SubSeq(chunk, 9 + Len(payload), 12 + Len(payload)) = Crc32Reference(ctype \o payload)

\* C20: the builder's layout: for every type and payload the chunk is the
\* 4-byte big-endian length, the type, the payload and the 4-byte big-endian
\* CRC-32 of type and payload, len(payload) + 12 bytes in all; the XMP chunk is
\* an iTXt chunk whose payload is "XML:com.adobe.xmp", NUL, compression flag 0,
\* compression method 0, NUL for the empty language tag, NUL for the empty
\* translated keyword, then the packet; and the extractor, applied to a file
\* that holds this chunk, returns the packet's bytes unchanged.
C20_BuilderLayout ==
    /\ pure.op = "build" => HasLayout(pure.chunk, pure.chunk_type, pure.payload)
    /\ pure.op = "build_xmp" =>
         /\ HasLayout(pure.chunk, <<105, 84, 88, 116>>,
                      <<88, 77, 76, 58, 99, 111, 109, 46, 97, 100, 111, 98, 101, 46, 120,
                        109, 112, 0, 0, 0, 0, 0>> \o pure.xmp_packet)
         /\ pure.extracted = Some(pure.xmp_packet)

\* An XMP chunk was built for a packet that holds a NUL byte, put in a file after
\* another chunk, and the packet was read back from the file.
C20_Witness ==
    /\ pure.op = "build_xmp"
    /\ \E i \in 1..Len(pure.xmp_packet) : pure.xmp_packet[i] = 0
    /\ Len(pure.file) > Len(pure.chunk) + 8 + 25 + 22 + 12
    /\ pure.extracted = Some(pure.xmp_packet)

====
